---- MODULE Spec2Model ----
(***************************************************************************)
(* Configuration persistence layer of simple-video-player: the Database    *)
(* facade (adapter selection, close, forwarders), the three adapters' set  *)
(* and get on the singleton "config" key, the handler path that works on   *)
(* the configs table directly, and the config / auth HTTP handlers of the  *)
(* three deployment paths (Express, Vercel, Cloudflare).                   *)
(***************************************************************************)
EXTENDS Integers, Sequences, FiniteSets, TLC

\* Bounds of the model.
MaxAdapters == 3     \* adapter instances constructed by Database.initialize
MaxPools == 3        \* mysql pools created (mysql.createPool)
MaxCalls == 2        \* Database.initialize calls that may be in flight together
MaxSetters == 2      \* <adapter>.set calls that may be in flight together
MaxUpdaters == 2     \* updateConfig calls that may be in flight together

VARIABLES
  adapter,       \* Database.adapter: 0 is null, otherwise an instance id
  initialized,   \* Database.initialized
  inst,          \* the adapter instances constructed so far (a sequence)
  pools,         \* the mysql pools created so far: "open", "ending", "ended"
  calls,         \* the Database.initialize calls, one record per call slot
  closer,        \* the Database.close call
  fwd,           \* the outcome of the forwarder call being observed
  bound,         \* an initialize call returned true and no close completed since
  env            \* the connection settings of the process environment

facadeVars == <<adapter, initialized, inst, pools, calls, closer, fwd, bound, env>>

\* The adapter under test and its store (the configs table or the namespace).
VARIABLES
  stKind,        \* which adapter: "sql", "pg" or "kv"
  rows,          \* the committed rows of the store, in insertion order
  lock,          \* the set call whose uncommitted write locks the row (0: none)
  setters,       \* the calls of <adapter>.set in flight
  getter,        \* the call of <adapter>.get in flight
  okSets         \* the values of the last two set calls that returned true

storeVars == <<stKind, rows, lock, setters, getter, okSets>>

\* The configs table as the request handlers use it directly.
VARIABLES
  hRows,         \* the rows of configs, in insertion order
  hNextId,       \* the next value of the auto-increment id
  updaters,      \* the calls of updateConfig in flight
  reader,        \* the call of getConfig in flight
  hLast          \* the payload of the updateConfig call that completed last

handlerVars == <<hRows, hNextId, updaters, reader, hLast>>

\* The HTTP handlers of one deployment.
VARIABLES
  deploy,        \* the deployment path: which server and config handler run
  dbState,       \* the store: "unset" (no connection info), "down" or "up"
  adminPw,       \* env.ADMIN_PASSWORD ("undef": not set)
  stored,        \* the rows the config SELECT returns: none, or the record
  req,           \* the request handled last
  resp,          \* the response sent to it
  verify         \* the last call of regular-user verifyPassword

httpVars == <<deploy, dbState, adminPw, stored, req, resp, verify>>

\* The login tokens of one server.
VARIABLES
  server,        \* which server issues and verifies: "express" or "vercel"
  now,           \* Date.now(), in milliseconds
  held,          \* the token the client holds
  verdict        \* the last call of verifyToken

tokenVars == <<server, now, held, verdict>>

\* The configuration reads, call by call.
VARIABLES
  cfgRead,       \* the last call of getConfig (Cloudflare config handler)
  pubRead        \* the last call of getPublicConfig

readVars == <<cfgRead, pubRead>>

\* One adapter with the operations called on it one after another
VARIABLES
  aKind,         \* the adapter: "sql", "pg" or "kv"
  aConf,         \* what it was constructed with: a DSN / a KV namespace
  pool,          \* SQLAdapter.pool is not null
  aInit,         \* the adapter's initialized flag
  tbl,           \* the ids of the committed rows of the table
  opn,            \* the operation in flight, or the last one completed
  inUse,         \* connections borrowed from the pool / opened, not yet given back
  opCount        \* operations started so far

opVars == <<aKind, aConf, pool, aInit, tbl, opn, inUse, opCount>>

\* The DSN parser
VARIABLES
  dsn,           \* the DSN string, a sequence of characters
  parsed         \* what parseDSN returned for it (NotParsed before the call)

parseVars == <<dsn, parsed>>

\* The API middleware of the Vercel functions
VARIABLES
  mwInitialized, \* the module variable initialized
  mwReqs,        \* the requests passing through the middleware
  setups         \* how many times setupDatabase has been started

mwVars == <<mwInitialized, mwReqs, setups>>

nonFacade == <<storeVars, handlerVars, httpVars, tokenVars, readVars, opVars, parseVars, mwVars>>

nonStore == <<facadeVars, handlerVars, httpVars, tokenVars, readVars, opVars, parseVars, mwVars>>

nonHandler == <<facadeVars, storeVars, httpVars, tokenVars, readVars, opVars, parseVars, mwVars>>

nonHttp == <<facadeVars, storeVars, handlerVars, tokenVars, readVars, opVars, parseVars, mwVars>>

nonToken == <<facadeVars, storeVars, handlerVars, httpVars, readVars, opVars, parseVars, mwVars>>

nonRead == <<facadeVars, storeVars, handlerVars, httpVars, tokenVars, opVars, parseVars, mwVars>>

nonOp == <<facadeVars, storeVars, handlerVars, httpVars, tokenVars, readVars, parseVars, mwVars>>

nonParse ==
  <<facadeVars, storeVars, handlerVars, httpVars, tokenVars, readVars, opVars, mwVars>>

nonMw ==
  <<facadeVars, storeVars, handlerVars, httpVars, tokenVars, readVars, opVars, parseVars>>

vars ==
  <<facadeVars, storeVars, handlerVars, httpVars, tokenVars, readVars, opVars,
    parseVars, mwVars>>

Calls == 1..MaxCalls
Kinds == <<"sql", "pg", "kv">>
Ops == {"get", "set", "delete", "list", "query", "transaction"}

\* DatabaseConfig: which candidates are present. kv is the namespace handle:
\* absent, an object, or a truthy value that is not an object.
DatabaseConfig == [sql : BOOLEAN, pg : BOOLEAN, kv : {"none", "obj", "str"}]

NoConfig == [sql |-> FALSE, pg |-> FALSE, kv |-> "none"]

\* A call of Database.initialize: where it stands (pc), its argument (cfg), the
\* adapter it awaits the close of (tgt, with the pool whose end() it awaits),
\* the candidate block it is in (prio), the instance whose initialize() it
\* awaits (cur, with the pool that initialize() created), its return value
\* (ret), and what it did: the adapters it constructed (made), the adapters
\* whose initialize() it called (tried) and their results (outs), and whether
\* the facade was bound when it was called (wasBound).
IdleCall == [pc |-> "idle", cfg |-> NoConfig,
             tgt |-> 0, tgtPool |-> 0, prio |-> 0, cur |-> 0, curPool |-> 0,
             made |-> <<>>, tried |-> <<>>, outs |-> <<>>, ret |-> "none",
             wasBound |-> FALSE]

IdleCloser == [pc |-> "idle", tgt |-> 0, tgtPool |-> 0]

NoFwd == [op |-> "none", raised |-> FALSE]

InitFacade ==
  /\ adapter = 0
  /\ initialized = FALSE
  /\ inst = <<>>
  /\ pools = <<>>
  /\ calls = [c \in Calls |-> IdleCall]
  /\ closer = IdleCloser
  /\ fwd = NoFwd
  /\ bound = FALSE

\* A JavaScript value: a configuration record (a plain object, told apart by
\* its name), a string, or null.
Obj(n) == [t |-> "obj", s |-> n]

Str(x) == [t |-> "str", s |-> x]

Null == [t |-> "null", s |-> ""]

\* A call of <adapter>.set: where it stands (pc), its value argument, what its
\* SELECT saw (saw), the write of its open transaction (pending, with the
\* document doc) and its return value (ret).
IdleSetter == [pc |-> "idle", value |-> Null, saw |-> FALSE,
               pending |-> "none", doc |-> Null, ret |-> "none"]

\* A call of <adapter>.get: where it stands and the value it returns.
IdleGetter == [pc |-> "idle", result |-> Null]

\* No adapter call is in flight and the store is empty.
StoreIdle ==
  /\ stKind = "kv"
  /\ rows = <<>>
  /\ lock = 0
  /\ setters = [s \in 1..MaxSetters |-> IdleSetter]
  /\ getter = IdleGetter
  /\ okSets = <<>>

\* A call of updateConfig: where it stands, its config argument and the id its
\* SELECT returned (0: no row).
IdleUpdater == [pc |-> "idle", config |-> Null, seenId |-> 0]

\* A call of getConfig: where it stands, the config it returns, and what held
\* when its SELECT was answered: the payload of the last completed update
\* (last) and whether no update was in flight (quiet).
IdleReader == [pc |-> "idle", result |-> Null, last |-> Null, quiet |-> FALSE]

\* No handler call is in flight and configs is empty.
HandlerIdle ==
  /\ hRows = <<>>
  /\ hNextId = 1
  /\ updaters = [u \in 1..MaxUpdaters |-> IdleUpdater]
  /\ reader = IdleReader
  /\ hLast = Null

\* No request has been handled.
NoToken == [kind |-> "none", dev |-> TRUE]

NoReq == [route |-> "none", method |-> "none", token |-> NoToken]

NoResp == [status |-> 0, body |-> [none |-> TRUE], wrote |-> FALSE]

NoVerify == [called |-> FALSE, candidate |-> "undef", result |-> "false",
             rows |-> <<>>, db |-> "unset"]

HttpIdle ==
  /\ deploy = "express"
  /\ dbState = "unset"
  /\ adminPw = "undef"
  /\ stored = <<>>
  /\ req = NoReq
  /\ resp = NoResp
  /\ verify = NoVerify

\* The headers of a request as far as the fingerprints read them: user-agent
\* ("" when the header is absent) and the client address.
NoHeaders == [ua |-> "", ip |-> "ip1"]

\* No token: the payload fields, whether the signature is the server's, and
\* the headers of the request it was issued for.
NoHeld == [isAdmin |-> FALSE, deviceFingerprint |-> "", iat |-> 0, exp |-> 0,
           signed |-> FALSE, h1 |-> NoHeaders]

NoVerdict == [called |-> FALSE, fn |-> "none", token |-> NoHeld,
              headers |-> NoHeaders, at |-> 0, accepted |-> FALSE]

\* The clock the model starts at, in milliseconds.
StartMs == 100000000

TokenIdle ==
  /\ server = "express"
  /\ now = StartMs
  /\ held = NoHeld
  /\ verdict = NoVerdict

\* What a call hands back: it throws, or it returns null, a falsy value that is
\* not null, or a record.
Throws == [kind |-> "throws", v |-> [none |-> TRUE]]

GotNull == [kind |-> "null", v |-> [none |-> TRUE]]

GotFalsy == [kind |-> "falsy", v |-> [none |-> TRUE]]

Got(c) == [kind |-> "record", v |-> c]

NoCfgRead == [called |-> FALSE, init |-> "true", get |-> GotNull, out |-> GotNull]

NoPubRead == [called |-> FALSE, impl |-> "none", config |-> [none |-> TRUE],
              out |-> [none |-> TRUE]]

ReadIdle ==
  /\ cfgRead = NoCfgRead
  /\ pubRead = NoPubRead

\* No operation called on the adapter yet.
IdleOp ==
  [name |-> "none", pc |-> "idle", inline |-> FALSE, ret |-> "none",
   failed |-> FALSE, took |-> 0, gave |-> 0, before |-> {}, txw |-> {},
   nestedCalled |-> FALSE, nestedRan |-> FALSE, arg |-> "none", kvCalls |-> 0,
   missing |-> FALSE]

OpIdle ==
  /\ aKind = "sql"
  /\ aConf = "set"
  /\ pool = FALSE
  /\ aInit = FALSE
  /\ tbl = {}
  /\ opn = IdleOp
  /\ inUse = 0
  /\ opCount = 0

MaxRequests == 3

IdleRequest == [pc |-> "idle", method |-> "none"]

NotParsed == [called |-> FALSE]

ParseIdle ==
  /\ dsn = <<>>
  /\ parsed = NotParsed

MwIdle ==
  /\ mwInitialized = FALSE
  /\ mwReqs = [r \in 1..MaxRequests |-> IdleRequest]
  /\ setups = 0

\* The process starts with some connection settings in its environment.
Init ==
  /\ InitFacade
  /\ env \in DatabaseConfig
  /\ StoreIdle
  /\ HandlerIdle
  /\ HttpIdle
  /\ TokenIdle
  /\ ReadIdle
  /\ OpIdle
  /\ ParseIdle
  /\ MwIdle

\* Database.initialize is given its configuration by the caller.
InitSeq ==
  /\ InitFacade
  /\ env = NoConfig
  /\ StoreIdle
  /\ HandlerIdle
  /\ HttpIdle
  /\ TokenIdle
  /\ ReadIdle
  /\ OpIdle
  /\ ParseIdle
  /\ MwIdle

Min(S) == CHOOSE x \in S : \A y \in S : x <= y

\* ---------------------------------------------------------------------------
\* The adapters, as far as Database.initialize and Database.close drive them.
\* An instance is [kind, pool, inited]: pool is SQLAdapter.pool (0 is null,
\* otherwise the index of the pool in pools), inited is the adapter's own
\* initialized flag.

\* The part of <adapter>.initialize() that runs before its first await, on an
\* instance constructed just before. SQLAdapter creates its pool at once;
\* KVAdapter.initialize has no await and decides at once.
NewInstance(kind, cfg, pls) ==
  CASE kind = "sql" -> [kind |-> "sql", pool |-> Len(pls) + 1, inited |-> FALSE]
    [] kind = "pg"  -> [kind |-> "pg", pool |-> 0, inited |-> FALSE]
    [] kind = "kv"  -> [kind |-> "kv", pool |-> 0, inited |-> (cfg.kv = "obj")]

PoolsAfterNew(kind, pls) ==
  IF kind = "sql" THEN Append(pls, "open") ELSE pls

\* The outcomes <adapter>.initialize() can have once its awaits are over. The
\* store may or may not answer; a pool that has been ended gives no connection;
\* the key-value adapter only looks at the type of its namespace.
InitOutcomes(a, p, cfg) ==
  CASE inst[a].kind = "sql" -> IF pools[p] = "ended" THEN {FALSE} ELSE BOOLEAN
    [] inst[a].kind = "pg"  -> BOOLEAN
    [] inst[a].kind = "kv"  -> {cfg.kv = "obj"}

\* The instance after <adapter>.initialize() has returned b.
InstAfterInit(a, b) ==
  CASE inst[a].kind = "sql" ->
         IF b THEN [inst[a] EXCEPT !.inited = TRUE] ELSE [inst[a] EXCEPT !.pool = 0]
    [] inst[a].kind = "pg" ->
         IF b THEN [inst[a] EXCEPT !.inited = TRUE] ELSE inst[a]
    [] inst[a].kind = "kv" -> inst[a]

\* <adapter>.close() up to its await: SQLAdapter calls pool.end() on the pool
\* it holds; the other two reset their flag at once.
CloseInstBegin(a) ==
  IF inst[a].kind = "sql" THEN inst
  ELSE [inst EXCEPT ![a].inited = FALSE]

ClosePoolsBegin(a) ==
  IF inst[a].kind = "sql" /\ inst[a].pool # 0 /\ pools[inst[a].pool] # "ended"
  THEN [pools EXCEPT ![inst[a].pool] = "ending"]
  ELSE pools

\* <adapter>.close() after its await; p is the pool whose end() was awaited
\* (0 when the adapter held no pool and close did nothing).
CloseInstEnd(a, p) ==
  IF inst[a].kind = "sql" /\ p # 0
  THEN [inst EXCEPT ![a].pool = 0, ![a].inited = FALSE]
  ELSE inst

\* A close whose pool.end() leaves the pool as it is.
ClosePoolsEndKeepsPool(a, p) == pools

ClosePoolsEnd(a, p) ==
  IF inst[a].kind = "sql" /\ p # 0 THEN [pools EXCEPT ![p] = "ended"] ELSE pools

\* ---------------------------------------------------------------------------
\* Database.initialize

\* A faulty early return, taken when the adapter is missing.
AlreadyBoundSwapped == initialized /\ adapter = 0

\* The early return of initialize: the facade is bound already.
AlreadyBound == initialized /\ adapter # 0

\* A faulty failure branch that forgets to reset this.adapter.
AdapterKeptAfterFailure(a) == a

\* this.adapter after the initialize() of candidate a returned false:
\* this.adapter = null.
AdapterAfterFailure(a) == 0

\* Is candidate j (1 SQL DSN, 2 Postgres, 3 key-value) taken, with this.adapter
\* being ad when its condition is evaluated?
CandidateTaken(j, cfg, ad) ==
  CASE j = 1 -> cfg.sql
    [] j = 2 -> ad = 0 /\ cfg.pg
    [] j = 3 -> ad = 0 /\ cfg.kv # "none"

\* The candidate blocks from priority k on, entered with this.adapter = ad,
\* the instances ins and the pools pls: the first candidate taken is
\* constructed, assigned to this.adapter and its initialize() is called; with
\* no candidate left the call returns false (true if this.adapter is set).
TryFrom(c, k, ad, ins, pls, call) ==
  LET rest == {j \in k..3 : CandidateTaken(j, call.cfg, ad)} IN
  IF rest = {}
  THEN /\ adapter' = ad
       /\ inst' = ins
       /\ pools' = pls
       /\ calls' = [calls EXCEPT ![c] =
             [call EXCEPT !.pc = "done", !.cur = 0,
                          !.ret = IF ad = 0 THEN "false" ELSE "true"]]
  ELSE LET j == Min(rest)
           kind == Kinds[j]
           a == Len(ins) + 1
       IN /\ Len(ins) < MaxAdapters
          /\ kind = "sql" => Len(pls) < MaxPools
          /\ adapter' = a
          /\ inst' = Append(ins, NewInstance(kind, call.cfg, pls))
          /\ pools' = PoolsAfterNew(kind, pls)
          /\ calls' = [calls EXCEPT ![c] =
                [call EXCEPT !.pc = "awaitInit", !.cur = a, !.prio = j,
                             !.curPool = IF kind = "sql" THEN Len(pls) + 1 ELSE 0,
                             !.made = Append(@, kind),
                             !.tried = Append(@, kind)]]

\* initialize(config) up to its first await.
Start(c, cfg) ==
  /\ fwd = NoFwd
  /\ calls[c].pc = "idle"
  /\ c = Min({d \in Calls : calls[d].pc = "idle"})
  /\ LET call == [IdleCall EXCEPT !.cfg = cfg,
                                  !.wasBound = (initialized /\ adapter # 0)]
     IN IF AlreadyBound
        THEN /\ calls' = [calls EXCEPT ![c] =
                   [call EXCEPT !.pc = "done", !.ret = "true"]]
             /\ UNCHANGED <<adapter, inst, pools>>
        ELSE IF adapter # 0
        THEN /\ calls' = [calls EXCEPT ![c] =
                   [call EXCEPT !.pc = "closing", !.tgt = adapter,
                                !.tgtPool = inst[adapter].pool]]
             /\ inst' = CloseInstBegin(adapter)
             /\ pools' = ClosePoolsBegin(adapter)
             /\ UNCHANGED adapter
        ELSE TryFrom(c, 1, adapter, inst, pools, call)
  /\ bound' = (bound \/ calls'[c].ret = "true")
  /\ UNCHANGED <<initialized, closer, fwd, env>>
  /\ UNCHANGED nonFacade

\* The await of this.adapter.close() is over: this.adapter = null, then the
\* candidate blocks.
CloseAwaited(c) ==
  /\ fwd = NoFwd
  /\ calls[c].pc = "closing"
  /\ LET a == calls[c].tgt
         p == calls[c].tgtPool
     IN TryFrom(c, 1, 0, CloseInstEnd(a, p), ClosePoolsEnd(a, p), calls[c])
  /\ bound' = (bound \/ calls'[c].ret = "true")
  /\ UNCHANGED <<initialized, closer, fwd, env>>
  /\ UNCHANGED nonFacade

\* The await of this.adapter.initialize() is over with result b: bind and
\* return true, or this.adapter = null and on to the next candidate block.
InitAwaited(c, b) ==
  /\ fwd = NoFwd
  /\ calls[c].pc = "awaitInit"
  /\ LET a == calls[c].cur
         call == [calls[c] EXCEPT !.outs = Append(@, b)]
     IN /\ b \in InitOutcomes(a, call.curPool, call.cfg)
        /\ IF b
           THEN /\ initialized' = TRUE
                /\ inst' = [inst EXCEPT ![a] = InstAfterInit(a, TRUE)]
                /\ calls' = [calls EXCEPT ![c] =
                      [call EXCEPT !.pc = "done", !.ret = "true"]]
                /\ UNCHANGED <<adapter, pools>>
           ELSE /\ initialized' = initialized
                /\ TryFrom(c, call.prio + 1, AdapterAfterFailure(a),
                           [inst EXCEPT ![a] = InstAfterInit(a, FALSE)], pools, call)
  /\ bound' = (bound \/ calls'[c].ret = "true")
  /\ UNCHANGED <<closer, fwd, env>>
  /\ UNCHANGED nonFacade

\* The caller has its result; the slot is free for another call.
Return(c) ==
  /\ fwd = NoFwd
  /\ calls[c].pc = "done"
  /\ calls' = [calls EXCEPT ![c] = IdleCall]
  /\ UNCHANGED <<adapter, initialized, inst, pools, closer, fwd, bound, env>>
  /\ UNCHANGED nonFacade

\* ---------------------------------------------------------------------------
\* Database.close

\* close() up to its await; with no adapter it does nothing and is over.
CloseStart ==
  /\ fwd = NoFwd
  /\ closer.pc = "idle"
  /\ IF adapter # 0
     THEN /\ closer' = [pc |-> "closing", tgt |-> adapter,
                        tgtPool |-> inst[adapter].pool]
          /\ inst' = CloseInstBegin(adapter)
          /\ pools' = ClosePoolsBegin(adapter)
          /\ bound' = bound
     ELSE /\ closer' = [IdleCloser EXCEPT !.pc = "done"]
          /\ bound' = FALSE
          /\ UNCHANGED <<inst, pools>>
  /\ UNCHANGED <<adapter, initialized, calls, fwd, env>>
  /\ UNCHANGED nonFacade

\* The await of this.adapter.close() is over: adapter = null, initialized = false.
CloseFinish ==
  /\ fwd = NoFwd
  /\ closer.pc = "closing"
  /\ inst' = CloseInstEnd(closer.tgt, closer.tgtPool)
  /\ pools' = ClosePoolsEnd(closer.tgt, closer.tgtPool)
  /\ adapter' = 0
  /\ initialized' = FALSE
  /\ bound' = FALSE
  /\ closer' = [IdleCloser EXCEPT !.pc = "done"]
  /\ UNCHANGED <<calls, fwd, env>>
  /\ UNCHANGED nonFacade

CloseReturn ==
  /\ fwd = NoFwd
  /\ closer.pc = "done"
  /\ closer' = IdleCloser
  /\ UNCHANGED <<adapter, initialized, inst, pools, calls, fwd, bound, env>>
  /\ UNCHANGED nonFacade

\* ---------------------------------------------------------------------------
\* The forwarders Database.get / set / delete / list / query / transaction

\* What the forwarder does: throw when this.adapter is null, else call the
\* adapter's method of the same name.
Forwarder(op) ==
  [op |-> op, raised |-> (adapter = 0)]

\* The adapter method a forwarder calls first makes up for a missing
\* initialization: SQLAdapter calls its initialize() when it holds no pool
\* (a pool is created; it is kept if the store answers), PgAdapter when its
\* flag is unset; KVAdapter does nothing of the kind.
\* lazy is the result of that initialize().
InstAfterForward(a, lazy) ==
  CASE inst[a].kind = "sql" /\ inst[a].pool = 0 /\ Len(pools) < MaxPools ->
         [inst EXCEPT ![a].pool = IF lazy THEN Len(pools) + 1 ELSE 0,
                      ![a].inited = lazy]
    [] inst[a].kind = "pg" /\ ~inst[a].inited ->
         [inst EXCEPT ![a].inited = lazy]
    [] OTHER -> inst

PoolsAfterForward(a) ==
  IF inst[a].kind = "sql" /\ inst[a].pool = 0 /\ Len(pools) < MaxPools
  THEN Append(pools, "open")
  ELSE pools

Forward(op, lazy) ==
  /\ fwd = NoFwd
  /\ fwd' = Forwarder(op)
  /\ IF adapter = 0
     THEN UNCHANGED <<inst, pools>>
     ELSE /\ inst' = InstAfterForward(adapter, lazy)
          /\ pools' = PoolsAfterForward(adapter)
  /\ UNCHANGED <<adapter, initialized, calls, closer, bound, env>>
  /\ UNCHANGED nonFacade

\* The caller has seen what the forwarder did.
ForwardReturn ==
  /\ fwd # NoFwd
  /\ fwd' = NoFwd
  /\ UNCHANGED <<adapter, initialized, inst, pools, calls, closer, bound, env>>
  /\ UNCHANGED nonFacade

\* ---------------------------------------------------------------------------
\* Calls of initialize and close overlap freely: each await is a point where
\* another call may run.
\* initDatabaseFromEnv: the configuration is read off the environment.
InitDatabaseFromEnv(c) == Start(c, env)

Next ==
  \/ \E c \in Calls : InitDatabaseFromEnv(c)
  \/ \E c \in Calls : CloseAwaited(c)
  \/ \E c \in Calls, b \in BOOLEAN : InitAwaited(c, b)
  \/ \E c \in Calls : Return(c)
  \/ CloseStart
  \/ CloseFinish
  \/ CloseReturn
  \/ \E op \in Ops, lazy \in BOOLEAN : Forward(op, lazy)
  \/ ForwardReturn

Spec == Init /\ [][Next]_vars

\* Calls of initialize overlapping one another, with close never called.
NextInitialize ==
  \/ \E c \in Calls : InitDatabaseFromEnv(c)
  \/ \E c \in Calls : CloseAwaited(c)
  \/ \E c \in Calls, b \in BOOLEAN : InitAwaited(c, b)
  \/ \E c \in Calls : Return(c)
  \/ \E op \in Ops, lazy \in BOOLEAN : Forward(op, lazy)
  \/ ForwardReturn

SpecInitialize == Init /\ [][NextInitialize]_vars

\* One call at a time: initialize and close are only called when no other
\* call of either is in flight.
Quiet == closer.pc = "idle" /\ \A c \in Calls : calls[c].pc = "idle"

StartSeq(c, cfg) == Quiet /\ Start(c, cfg)

CloseStartSeq == Quiet /\ CloseStart

NextSeq ==
  \/ \E c \in Calls, cfg \in DatabaseConfig : StartSeq(c, cfg)
  \/ \E c \in Calls, b \in BOOLEAN : InitAwaited(c, b)
  \/ \E c \in Calls : Return(c)
  \/ CloseStartSeq
  \/ CloseFinish
  \/ CloseReturn
  \/ \E op \in Ops, lazy \in BOOLEAN : Forward(op, lazy)
  \/ ForwardReturn

SpecSeq == InitSeq /\ [][NextSeq]_vars

\* One call at a time, the forwarders included: a forwarder is only called
\* when no initialize and no close is waiting on an adapter.
Settled ==
  /\ closer.pc # "closing"
  /\ \A c \in Calls : calls[c].pc \in {"idle", "done"}

ForwardSettled(op, lazy) == Settled /\ Forward(op, lazy)

NextCalls ==
  \/ \E c \in Calls, cfg \in DatabaseConfig : StartSeq(c, cfg)
  \/ \E c \in Calls, b \in BOOLEAN : InitAwaited(c, b)
  \/ \E c \in Calls : Return(c)
  \/ CloseStartSeq
  \/ CloseFinish
  \/ CloseReturn
  \/ \E op \in Ops, lazy \in BOOLEAN : ForwardSettled(op, lazy)
  \/ ForwardReturn

SpecCalls == InitSeq /\ [][NextCalls]_vars

\* ---------------------------------------------------------------------------
\* The adapters' set and get on the singleton key "config", on an adapter that
\* is initialized and whose store answers.

RecordNames == {"A", "B", "C"}

\* The configuration records handed to set("config", _).
ConfigRecords == {Obj("A"), Obj("B")}

\* The JavaScript values the conversions range over.
JSValues ==
  {Obj(n) : n \in RecordNames} \cup
  {Str(x) : x \in {"plain", "{A}", "{B}", "{C}"}} \cup
  {Null}

\* JSON.stringify(v): the JSON text of a value.
JSONstringify(v) ==
  CASE v.t = "obj" -> "{" \o v.s \o "}"
    [] v.t = "str" -> "\"" \o v.s \o "\""
    [] OTHER -> "null"

\* Whether JSON.parse(text) returns (it throws a SyntaxError otherwise).
JSONvalid(text) == \E v \in JSValues : JSONstringify(v) = text

\* JSON.parse(text), for a text that is valid JSON.
JSONparse(text) == CHOOSE v \in JSValues : JSONstringify(v) = text

\* The id of the singleton record: SQLAdapter uses "WHERE id = 1" for the key
\* "config", PgAdapter and KVAdapter use the key itself.
ConfigId(kind) == IF kind = "sql" THEN "1" ELSE "config"

\* The rows of the store that have the id k.
RowsWithId(rs, k) == {i \in DOMAIN rs : rs[i].id = k}

\* The primary key of configs (id INT PRIMARY KEY / id TEXT PRIMARY KEY): an
\* INSERT of an id that a row already has is rejected.
NoPrimaryKey(rs, k) == FALSE

PrimaryKeyTaken(rs, k) == RowsWithId(rs, k) # {}

\* INSERT INTO configs (id, config) VALUES (k, d).
RowsAfterInsert(rs, k, d) == Append(rs, [id |-> k, config |-> d])

\* UPDATE configs SET config = d WHERE id = k.
UpdateAppendsRow(rs, k, d) == Append(rs, [id |-> k, config |-> d])

RowsAfterUpdate(rs, k, d) ==
  [i \in DOMAIN rs |-> IF rs[i].id = k THEN [rs[i] EXCEPT !.config = d]
                                        ELSE rs[i]]

\* INSERT ... ON CONFLICT (id) DO UPDATE SET config = d, one atomic statement.
RowsAfterUpsert(rs, k, d) ==
  IF PrimaryKeyTaken(rs, k) THEN RowsAfterUpdate(rs, k, d)
                            ELSE RowsAfterInsert(rs, k, d)

\* namespace.put(k, text): the namespace maps a key to one text.
RowsAfterPut(rs, k, text) ==
  IF RowsWithId(rs, k) # {} THEN RowsAfterUpdate(rs, k, text)
                            ELSE RowsAfterInsert(rs, k, text)

\* What the column of a JSON / JSONB table holds once the driver has sent the
\* value: SQLAdapter sends JSON.stringify(value); PgAdapter first replaces a
\* string that is valid JSON by its parse and lets the driver serialize.
SqlDocument(v) == JSONparse(JSONstringify(v))

PgDataToStore(v) ==
  IF v.t = "str" /\ JSONvalid(v.s) THEN JSONparse(v.s) ELSE v

PgDocument(v) == JSONparse(JSONstringify(PgDataToStore(v)))

\* KVAdapter.set stores a string as it is and the JSON text of anything else.
KvStringValue(v) == IF v.t = "str" THEN v.s ELSE JSONstringify(v)

\* The last two of a sequence.
LastTwo(q) == IF Len(q) <= 2 THEN q ELSE SubSeq(q, Len(q) - 1, Len(q))

Setters == 1..MaxSetters

\* The store under test: any of the three adapters, on an empty store or on
\* one that already holds the record (C).
InitStore ==
  /\ stKind \in {"sql", "pg", "kv"}
  /\ rows \in {<<>>,
               <<[id |-> ConfigId(stKind),
                  config |-> IF stKind = "kv" THEN KvStringValue(Obj("C"))
                                              ELSE Obj("C")]>>}
  /\ lock = 0
  /\ setters = [s \in Setters |-> IdleSetter]
  /\ getter = IdleGetter
  /\ okSets = <<>>

InitAdapter ==
  /\ InitFacade
  /\ env = NoConfig
  /\ InitStore
  /\ HandlerIdle
  /\ HttpIdle
  /\ TokenIdle
  /\ ReadIdle
  /\ OpIdle
  /\ ParseIdle
  /\ MwIdle

\* <adapter>.set("config", v) is called. SQLAdapter.set takes a connection and
\* begins a transaction; PgAdapter.set and KVAdapter.set go on to their one
\* statement.
SetStart(s, v) ==
  /\ setters[s].pc = "idle"
  /\ s = Min({x \in Setters : setters[x].pc = "idle"})
  /\ setters' = [setters EXCEPT ![s] =
       [IdleSetter EXCEPT !.pc = IF stKind = "sql" THEN "select" ELSE "write",
                          !.value = v]]
  /\ UNCHANGED <<stKind, rows, lock, getter, okSets>>
  /\ UNCHANGED nonStore

\* SQLAdapter.set: SELECT id FROM configs WHERE id = 1 LIMIT 1 has answered
\* (a consistent read: it sees the committed rows).
SqlSelect(s) ==
  /\ stKind = "sql"
  /\ setters[s].pc = "select"
  /\ setters' = [setters EXCEPT ![s].pc = "write",
                                ![s].saw = (RowsWithId(rows, ConfigId("sql")) # {})]
  /\ UNCHANGED <<stKind, rows, lock, getter, okSets>>
  /\ UNCHANGED nonStore

\* SQLAdapter.set: the UPDATE or the INSERT has answered. The statement waits
\* while another transaction holds the row; an INSERT of a taken id fails, the
\* transaction is rolled back and set returns false.
SqlWrite(s) ==
  /\ stKind = "sql"
  /\ setters[s].pc = "write"
  /\ lock = 0
  /\ LET k == ConfigId("sql")
         d == SqlDocument(setters[s].value)
     IN IF setters[s].saw
        THEN /\ setters' = [setters EXCEPT
                  ![s].pc = "commit",
                  ![s].pending = IF RowsWithId(rows, k) # {} THEN "update"
                                                            ELSE "none",
                  ![s].doc = d]
             /\ lock' = IF RowsWithId(rows, k) # {} THEN s ELSE 0
             /\ okSets' = okSets
        ELSE IF PrimaryKeyTaken(rows, k)
        THEN /\ setters' = [setters EXCEPT ![s].pc = "done", ![s].ret = "false"]
             /\ lock' = lock
             /\ okSets' = okSets
        ELSE /\ setters' = [setters EXCEPT ![s].pc = "commit",
                                           ![s].pending = "insert",
                                           ![s].doc = d]
             /\ lock' = s
             /\ okSets' = okSets
  /\ UNCHANGED <<stKind, rows, getter>>
  /\ UNCHANGED nonStore

\* SQLAdapter.set: COMMIT has answered; set returns true.
SqlCommit(s) ==
  /\ stKind = "sql"
  /\ setters[s].pc = "commit"
  /\ LET k == ConfigId("sql")
         p == setters[s].pending
     IN rows' = CASE p = "insert" -> RowsAfterInsert(rows, k, setters[s].doc)
                  [] p = "update" -> RowsAfterUpdate(rows, k, setters[s].doc)
                  [] OTHER -> rows
  /\ lock' = IF lock = s THEN 0 ELSE lock
  /\ setters' = [setters EXCEPT ![s].pc = "done", ![s].ret = "true",
                                ![s].pending = "none"]
  /\ okSets' = LastTwo(Append(okSets, setters[s].value))
  /\ UNCHANGED <<stKind, getter>>
  /\ UNCHANGED nonStore

\* PgAdapter.set: sql.unsafe(INSERT ... ON CONFLICT ...) has answered.
PgUpsert(s) ==
  /\ stKind = "pg"
  /\ setters[s].pc = "write"
  /\ rows' = RowsAfterUpsert(rows, ConfigId("pg"), PgDocument(setters[s].value))
  /\ setters' = [setters EXCEPT ![s].pc = "done", ![s].ret = "true"]
  /\ okSets' = LastTwo(Append(okSets, setters[s].value))
  /\ UNCHANGED <<stKind, lock, getter>>
  /\ UNCHANGED nonStore

\* KVAdapter.set: namespace.put(key, stringValue) has answered.
KvPut(s) ==
  /\ stKind = "kv"
  /\ setters[s].pc = "write"
  /\ rows' = RowsAfterPut(rows, ConfigId("kv"), KvStringValue(setters[s].value))
  /\ setters' = [setters EXCEPT ![s].pc = "done", ![s].ret = "true"]
  /\ okSets' = LastTwo(Append(okSets, setters[s].value))
  /\ UNCHANGED <<stKind, lock, getter>>
  /\ UNCHANGED nonStore

\* The caller of set has its result.
SetReturn(s) ==
  /\ setters[s].pc = "done"
  /\ setters' = [setters EXCEPT ![s] = IdleSetter]
  /\ UNCHANGED <<stKind, rows, lock, getter, okSets>>
  /\ UNCHANGED nonStore

\* The first row with the id k (LIMIT 1).
FirstRow(rs, k) == rs[Min(RowsWithId(rs, k))]

\* SQLAdapter.get: the driver hands the JSON column over as a value; a string
\* is parsed once more, and a SyntaxError makes get return null.
SqlGet(rs) ==
  IF RowsWithId(rs, ConfigId("sql")) = {} THEN Null
  ELSE LET c == FirstRow(rs, ConfigId("sql")).config
       IN IF c.t = "str"
          THEN IF JSONvalid(c.s) THEN JSONparse(c.s) ELSE Null
          ELSE c

\* PgAdapter.get: result[0].config as the driver hands it over.
PgGet(rs) ==
  IF RowsWithId(rs, ConfigId("pg")) = {} THEN Null
  ELSE FirstRow(rs, ConfigId("pg")).config

\* KVAdapter.get: JSON.parse of the stored text, or the text itself.
KvGet(rs) ==
  IF RowsWithId(rs, ConfigId("kv")) = {} THEN Null
  ELSE LET text == FirstRow(rs, ConfigId("kv")).config
       IN IF JSONvalid(text) THEN JSONparse(text) ELSE Str(text)

\* <adapter>.get("config") is called.
GetStart ==
  /\ getter.pc = "idle"
  /\ getter' = [getter EXCEPT !.pc = "read"]
  /\ UNCHANGED <<stKind, rows, lock, setters, okSets>>
  /\ UNCHANGED nonStore

\* The read of get has answered.
GetRead ==
  /\ getter.pc = "read"
  /\ getter' = [pc |-> "done",
                result |-> CASE stKind = "sql" -> SqlGet(rows)
                             [] stKind = "pg" -> PgGet(rows)
                             [] OTHER -> KvGet(rows)]
  /\ UNCHANGED <<stKind, rows, lock, setters, okSets>>
  /\ UNCHANGED nonStore

\* The caller of get has its result.
GetReturn ==
  /\ getter.pc = "done"
  /\ getter' = IdleGetter
  /\ UNCHANGED <<stKind, rows, lock, setters, okSets>>
  /\ UNCHANGED nonStore

\* Calls of set and get from different sessions overlap freely.
NextAdapter ==
  \/ \E s \in Setters, v \in ConfigRecords : SetStart(s, v)
  \/ \E s \in Setters : SqlSelect(s)
  \/ \E s \in Setters : SqlWrite(s)
  \/ \E s \in Setters : SqlCommit(s)
  \/ \E s \in Setters : PgUpsert(s)
  \/ \E s \in Setters : KvPut(s)
  \/ \E s \in Setters : SetReturn(s)
  \/ GetStart
  \/ GetRead
  \/ GetReturn

SpecAdapter == InitAdapter /\ [][NextAdapter]_vars

\* One call at a time: set and get are called when no other call is in flight.
QuietStore == getter.pc = "idle" /\ \A s \in Setters : setters[s].pc = "idle"

SetStartSeq(s, v) == QuietStore /\ SetStart(s, v)

GetStartSeq == QuietStore /\ GetStart

NextAdapterSeq ==
  \/ \E s \in Setters, v \in ConfigRecords : SetStartSeq(s, v)
  \/ \E s \in Setters : SqlSelect(s)
  \/ \E s \in Setters : SqlWrite(s)
  \/ \E s \in Setters : SqlCommit(s)
  \/ \E s \in Setters : PgUpsert(s)
  \/ \E s \in Setters : KvPut(s)
  \/ \E s \in Setters : SetReturn(s)
  \/ GetStartSeq
  \/ GetRead
  \/ GetReturn

SpecAdapterSeq == InitAdapter /\ [][NextAdapterSeq]_vars

\* One call at a time, and set is handed any value: an object, a string whose
\* text is or is not valid JSON, or null.
NextAdapterValues ==
  \/ \E s \in Setters, v \in JSValues : SetStartSeq(s, v)
  \/ \E s \in Setters : SqlSelect(s)
  \/ \E s \in Setters : SqlWrite(s)
  \/ \E s \in Setters : SqlCommit(s)
  \/ \E s \in Setters : PgUpsert(s)
  \/ \E s \in Setters : KvPut(s)
  \/ \E s \in Setters : SetReturn(s)
  \/ GetStartSeq
  \/ GetRead
  \/ GetReturn

SpecAdapterValues == InitAdapter /\ [][NextAdapterValues]_vars

\* ---------------------------------------------------------------------------
\* The handler path: getConfig and updateConfig of the Express and Vercel
\* handlers work on the configs table directly (id is auto-increment, no
\* transaction), each statement on its own.

Updaters == 1..MaxUpdaters

\* The config getConfig returns when configs is empty.
DefaultConfig == Obj("default")

InitHandler ==
  /\ InitFacade
  /\ env = NoConfig
  /\ StoreIdle
  /\ HandlerIdle
  /\ HttpIdle
  /\ TokenIdle
  /\ ReadIdle
  /\ OpIdle
  /\ ParseIdle
  /\ MwIdle

\* updateConfig(config) is called.
UpdateConfigStart(u, v) ==
  /\ updaters[u].pc = "idle"
  /\ u = Min({x \in Updaters : updaters[x].pc = "idle"})
  /\ updaters' = [updaters EXCEPT ![u] = [IdleUpdater EXCEPT !.pc = "select",
                                                           !.config = v]]
  /\ UNCHANGED <<hRows, hNextId, reader, hLast>>
  /\ UNCHANGED nonHandler

\* SELECT id FROM configs LIMIT 1 has answered: no row, or the id of some row
\* (the statement has no ORDER BY).
UpdateConfigSelect(u, i) ==
  /\ updaters[u].pc = "select"
  /\ IF hRows = <<>> THEN i = 0 ELSE i \in {hRows[j].id : j \in DOMAIN hRows}
  /\ updaters' = [updaters EXCEPT ![u].pc = "write", ![u].seenId = i]
  /\ UNCHANGED <<hRows, hNextId, reader, hLast>>
  /\ UNCHANGED nonHandler

\* UPDATE configs SET config = ? WHERE id = <the id seen>, or INSERT INTO
\* configs (config) VALUES (?), has answered; updateConfig reports success.
UpdateConfigWrite(u) ==
  /\ updaters[u].pc = "write"
  /\ LET d == SqlDocument(updaters[u].config)
     IN IF updaters[u].seenId # 0
        THEN /\ hRows' = RowsAfterUpdate(hRows, updaters[u].seenId, d)
             /\ hNextId' = hNextId
        ELSE /\ hRows' = RowsAfterInsert(hRows, hNextId, d)
             /\ hNextId' = hNextId + 1
  /\ updaters' = [updaters EXCEPT ![u].pc = "done"]
  /\ hLast' = updaters[u].config
  /\ UNCHANGED reader
  /\ UNCHANGED nonHandler

\* The caller of updateConfig has its result.
UpdateConfigReturn(u) ==
  /\ updaters[u].pc = "done"
  /\ updaters' = [updaters EXCEPT ![u] = IdleUpdater]
  /\ UNCHANGED <<hRows, hNextId, reader, hLast>>
  /\ UNCHANGED nonHandler

\* SELECT config FROM configs ORDER BY id DESC LIMIT 1, or the default config
\* when there is no row.
LatestConfig(rs) ==
  IF rs = <<>> THEN DefaultConfig
  ELSE LET top == CHOOSE j \in DOMAIN rs : \A k \in DOMAIN rs : rs[k].id <= rs[j].id
       IN rs[top].config

\* No call of updateConfig is between its start and its completion.
NoUpdateInFlight == \A u \in Updaters : updaters[u].pc \in {"idle", "done"}

\* getConfig() is called.
GetConfigStart ==
  /\ reader.pc = "idle"
  /\ reader' = [reader EXCEPT !.pc = "select"]
  /\ UNCHANGED <<hRows, hNextId, updaters, hLast>>
  /\ UNCHANGED nonHandler

\* The SELECT of getConfig has answered.
GetConfigSelect ==
  /\ reader.pc = "select"
  /\ reader' = [pc |-> "done", result |-> LatestConfig(hRows),
                last |-> hLast, quiet |-> NoUpdateInFlight]
  /\ UNCHANGED <<hRows, hNextId, updaters, hLast>>
  /\ UNCHANGED nonHandler

\* The caller of getConfig has its result.
GetConfigReturn ==
  /\ reader.pc = "done"
  /\ reader' = IdleReader
  /\ UNCHANGED <<hRows, hNextId, updaters, hLast>>
  /\ UNCHANGED nonHandler

\* Requests are handled concurrently: each await is a point where another
\* request's handler may run (or another process runs it).
NextHandler ==
  \/ \E u \in Updaters, v \in ConfigRecords : UpdateConfigStart(u, v)
  \/ \E u \in Updaters, i \in 0..(MaxUpdaters + 1) : UpdateConfigSelect(u, i)
  \/ \E u \in Updaters : UpdateConfigWrite(u)
  \/ \E u \in Updaters : UpdateConfigReturn(u)
  \/ GetConfigStart
  \/ GetConfigSelect
  \/ GetConfigReturn

SpecHandler == InitHandler /\ [][NextHandler]_vars

\* ---------------------------------------------------------------------------
\* The config and auth HTTP handlers of the deployment paths: the Express
\* server with server/config-handler.js ("express") or with the config handler
\* that takes the DSN ("expressDsn"), the Vercel functions ("vercel") and the
\* Cloudflare worker ("cloudflare"). A handler runs from request to response.

Deployments == {"express", "expressDsn", "vercel", "cloudflare"}

\* A configuration record, as far as the handlers look into it.
ConfigRecs ==
  [enableLogin : BOOLEAN, loginPassword : {"", "pw1"}, customTitle : {"t"}]

\* defaultConfig.
DefaultCfg ==
  [resourceSites |-> <<>>, parseApi |-> "", backgroundImage |-> "",
   enableLogin |-> FALSE, loginPassword |-> "", announcement |-> "",
   customTitle |-> ""]

\* The password of a login request: missing, empty, or some text.
Candidates == {"undef", "", "pw1", "pw2", "adm"}

\* The bearer token of a request: none, one that fails jwt.verify (forged or
\* expired), or one issued to a user or an admin, on this device or another.
Tokens ==
  {NoToken, [kind |-> "invalid", dev |-> TRUE]} \cup
  [kind : {"user", "admin"}, dev : BOOLEAN]

\* encodeBase64: Base64 applied three times.
EncodeBase64(str) == "b64:" \o str

\* getConfig of the Express config handlers encodes a password that is set.
WithEncodedPassword(c) ==
  IF "loginPassword" \in DOMAIN c /\ c.loginPassword # ""
  THEN [c EXCEPT !.loginPassword = EncodeBase64(@)]
  ELSE c

\* A getPublicConfig that only drops a password that is set.
PublicConfigDropsSetPassword(c) ==
  IF "loginPassword" \in DOMAIN c /\ c.loginPassword # ""
  THEN [f \in DOMAIN c \ {"loginPassword"} |-> c[f]]
  ELSE c

\* const { loginPassword, ...publicConfig } = config.
PublicConfig(c) == [f \in DOMAIN c \ {"loginPassword"} |-> c[f]]

\* getConfig of the Express config handlers: the default config without
\* connection info, on an error and on an empty table.
ExpressGetConfigOf(db, rws) ==
  IF db = "up" /\ rws # <<>> THEN WithEncodedPassword(rws[1]) ELSE DefaultCfg

ExpressGetConfig == ExpressGetConfigOf(dbState, stored)

\* getConfig of the Cloudflare config handler, given what initDatabaseFromEnv
\* and db.get('config') hand back: the default config when either throws and
\* when get returns nothing truthy, the value of get otherwise.
GetConfigNoFallback(init, get) ==
  IF init = "throws" \/ get.kind = "throws" THEN Got(DefaultCfg) ELSE get

GetConfigOf(init, get) ==
  IF init = "throws" \/ get.kind \in {"throws", "null", "falsy"}
  THEN Got(DefaultCfg)
  ELSE get

\* getConfig of the Cloudflare config handler on the store of the deployment:
\* without a bound adapter db.get throws. The Vercel handlers read the table
\* to the same effect.
CloudflareGetConfig ==
  GetConfigOf(IF dbState = "up" THEN "true" ELSE "false",
              IF dbState # "up" THEN Throws
              ELSE IF stored = <<>> THEN GotNull ELSE Got(stored[1])).v

\* A JavaScript boolean, as the result of verifyPassword.
Bool(b) == IF b THEN "true" ELSE "false"

\* verifyPassword of the Express config handlers. Without connection info
\* server/config-handler.js returns what withDatabaseConnection returns, the
\* defaultConfig object, and the handler that takes the DSN returns true.
ExpressVerifyPassword(d, password) ==
  CASE dbState = "unset" -> IF d = "express" THEN "object" ELSE "true"
    [] dbState = "down" -> "false"
    [] OTHER -> IF stored = <<>> THEN "true"
                ELSE Bool(password = stored[1].loginPassword)

\* verifyPassword of the Vercel auth function: withDatabase throws without a
\* connection.
VercelVerifyPassword(password) ==
  IF dbState # "up" THEN "false"
  ELSE IF stored = <<>> THEN "true"
  ELSE Bool(password = stored[1].loginPassword)

\* verifyPassword of the Cloudflare server.
CloudflareVerifyPassword(password) ==
  IF ~CloudflareGetConfig.enableLogin THEN "false"
  ELSE Bool(CloudflareGetConfig.loginPassword = password)

\* if (isValid).
Truthy(r) == r \in {"true", "object"}

\* verifyToken: jwt.verify, and on Express the device fingerprint. The
\* Cloudflare config handler reads no token at all.
VerifyToken(d, tok) ==
  CASE d \in {"express", "expressDsn"} -> tok.kind \in {"user", "admin"} /\ tok.dev
    [] d = "vercel" -> tok.kind \in {"user", "admin"}
    [] OTHER -> FALSE

\* A deployment with its store, its admin password and a stored record or none.
InitHttp ==
  /\ InitFacade
  /\ env = NoConfig
  /\ StoreIdle
  /\ HandlerIdle
  /\ deploy \in Deployments
  /\ dbState \in {"unset", "down", "up"}
  /\ adminPw \in {"undef", "adm"}
  /\ stored \in {<<>>} \cup {<<c>> : c \in ConfigRecs}
  /\ req = NoReq
  /\ resp = NoResp
  /\ verify = NoVerify
  /\ TokenIdle
  /\ ReadIdle
  /\ OpIdle
  /\ ParseIdle
  /\ MwIdle

\* A response with a JSON body.
Response(status, body, wrote) == [status |-> status, body |-> body, wrote |-> wrote]

ErrorBody == [error |-> "error"]

\* A call of regular-user verifyPassword, with the store as it was then.
Verified(password, result) ==
  [called |-> TRUE, candidate |-> password, result |-> result,
   rows |-> stored, db |-> dbState]

\* The outcome of the auth handlers once isValid is known.
AuthResponse(isValid, isAdmin) ==
  IF Truthy(isValid)
  THEN Response(200, [success |-> TRUE, token |-> IF isAdmin THEN "admin" ELSE "user"], FALSE)
  ELSE Response(401, ErrorBody, FALSE)

\* updateConfig as the handlers use its result: the record is written when
\* the store answers, and the handler answers 500 otherwise.
UpdateStored(c) == IF dbState = "up" THEN <<c>> ELSE stored

UpdateResponse ==
  IF dbState = "up" THEN Response(200, [message |-> "ok"], TRUE)
                    ELSE Response(500, ErrorBody, FALSE)

\* Express: GET /api/config (checkAuth).
ExpressApiConfig(tok) ==
  /\ deploy \in {"express", "expressDsn"}
  /\ req' = [route |-> "config", method |-> "GET", token |-> tok]
  /\ resp' = IF ~VerifyToken(deploy, tok) THEN Response(401, ErrorBody, FALSE)
             ELSE Response(200, PublicConfig(ExpressGetConfig), FALSE)
  /\ UNCHANGED <<deploy, dbState, adminPw, stored, verify>>
  /\ UNCHANGED nonHttp

\* Express: GET /api/admin/config (checkAuth, checkAdmin).
ExpressAdminGet(tok) ==
  /\ deploy \in {"express", "expressDsn"}
  /\ req' = [route |-> "admin", method |-> "GET", token |-> tok]
  /\ resp' = IF ~VerifyToken(deploy, tok) THEN Response(401, ErrorBody, FALSE)
             ELSE IF tok.kind # "admin" THEN Response(403, ErrorBody, FALSE)
             ELSE Response(200, ExpressGetConfig, FALSE)
  /\ UNCHANGED <<deploy, dbState, adminPw, stored, verify>>
  /\ UNCHANGED nonHttp

\* Express: POST /api/admin/config (checkAuth, checkAdmin).
ExpressAdminPost(tok, c) ==
  /\ deploy \in {"express", "expressDsn"}
  /\ req' = [route |-> "admin", method |-> "POST", token |-> tok]
  /\ IF ~VerifyToken(deploy, tok)
     THEN resp' = Response(401, ErrorBody, FALSE) /\ stored' = stored
     ELSE IF tok.kind # "admin"
     THEN resp' = Response(403, ErrorBody, FALSE) /\ stored' = stored
     ELSE resp' = UpdateResponse /\ stored' = UpdateStored(c)
  /\ UNCHANGED <<deploy, dbState, adminPw, verify>>
  /\ UNCHANGED nonHttp

\* Express: GET /api/home/config: the token is checked when login is enabled.
ExpressHomeConfig(tok) ==
  /\ deploy \in {"express", "expressDsn"}
  /\ req' = [route |-> "home", method |-> "GET", token |-> tok]
  /\ LET config == PublicConfig(ExpressGetConfig)
     IN resp' = IF ~config.enableLogin THEN Response(200, config, FALSE)
                ELSE IF ~VerifyToken(deploy, tok) THEN Response(401, ErrorBody, FALSE)
                ELSE Response(200, config, FALSE)
  /\ UNCHANGED <<deploy, dbState, adminPw, stored, verify>>
  /\ UNCHANGED nonHttp

\* Express: POST /api/auth/verify.
ExpressAuthVerify(password, isAdmin) ==
  /\ deploy \in {"express", "expressDsn"}
  /\ req' = [route |-> "auth", method |-> "POST", token |-> NoToken]
  /\ IF password \in {"undef", ""}
     THEN resp' = Response(400, ErrorBody, FALSE) /\ verify' = verify
     ELSE IF isAdmin
     THEN /\ resp' = AuthResponse(Bool(password = adminPw), isAdmin)
          /\ verify' = verify
     ELSE /\ resp' = AuthResponse(ExpressVerifyPassword(deploy, password), isAdmin)
          /\ verify' = Verified(password, ExpressVerifyPassword(deploy, password))
  /\ UNCHANGED <<deploy, dbState, adminPw, stored>>
  /\ UNCHANGED nonHttp

\* Vercel: api/admin/config. handleGetConfig inserts the default config into
\* an empty table.
VercelAdminConfig(method, tok, c) ==
  /\ deploy = "vercel"
  /\ req' = [route |-> "admin", method |-> method, token |-> tok]
  /\ IF tok.kind = "none"
     THEN resp' = Response(401, ErrorBody, FALSE) /\ stored' = stored
     ELSE IF ~VerifyToken(deploy, tok) \/ tok.kind # "admin"
     THEN resp' = Response(403, ErrorBody, FALSE) /\ stored' = stored
     ELSE IF method = "GET"
     THEN /\ resp' = Response(200, CloudflareGetConfig,
                              dbState = "up" /\ stored = <<>>)
          /\ stored' = IF dbState = "up" /\ stored = <<>> THEN <<DefaultCfg>>
                                                         ELSE stored
     ELSE resp' = UpdateResponse /\ stored' = UpdateStored(c)
  /\ UNCHANGED <<deploy, dbState, adminPw, verify>>
  /\ UNCHANGED nonHttp

\* Vercel: the home config function.
VercelHomeConfig(method, tok) ==
  /\ deploy = "vercel"
  /\ req' = [route |-> "home", method |-> method, token |-> tok]
  /\ LET config == CloudflareGetConfig
     IN resp' = IF method # "GET" THEN Response(405, ErrorBody, FALSE)
                ELSE IF ~config.enableLogin
                THEN Response(200, PublicConfig(config), FALSE)
                ELSE IF ~VerifyToken(deploy, tok) THEN Response(401, ErrorBody, FALSE)
                ELSE Response(200, PublicConfig(config), FALSE)
  /\ UNCHANGED <<deploy, dbState, adminPw, stored, verify>>
  /\ UNCHANGED nonHttp

\* Vercel: the auth function (POST).
VercelAuth(password, isAdmin) ==
  /\ deploy = "vercel"
  /\ req' = [route |-> "auth", method |-> "POST", token |-> NoToken]
  /\ IF password \in {"undef", ""}
     THEN resp' = Response(400, ErrorBody, FALSE) /\ verify' = verify
     ELSE IF isAdmin
     THEN /\ resp' = AuthResponse(Bool(password = adminPw), isAdmin)
          /\ verify' = verify
     ELSE /\ resp' = AuthResponse(VercelVerifyPassword(password), isAdmin)
          /\ verify' = Verified(password, VercelVerifyPassword(password))
  /\ UNCHANGED <<deploy, dbState, adminPw, stored>>
  /\ UNCHANGED nonHttp

\* Cloudflare: handleConfigRequest, for /api/admin/config and /api/home/config.
HandleConfigRequest(method, isHomeRequest, tok, c) ==
  /\ deploy = "cloudflare"
  /\ req' = [route |-> IF isHomeRequest THEN "home" ELSE "admin",
             method |-> method, token |-> tok]
  /\ IF method = "GET"
     THEN /\ resp' = IF isHomeRequest
                     THEN Response(200, PublicConfig(CloudflareGetConfig), FALSE)
                     ELSE Response(200, CloudflareGetConfig, FALSE)
          /\ stored' = stored
     ELSE IF isHomeRequest
     THEN resp' = Response(403, ErrorBody, FALSE) /\ stored' = stored
     ELSE resp' = UpdateResponse /\ stored' = UpdateStored(c)
  /\ UNCHANGED <<deploy, dbState, adminPw, verify>>
  /\ UNCHANGED nonHttp

\* Cloudflare: handleAuthRequest.
HandleAuthRequest(password, isAdmin) ==
  /\ deploy = "cloudflare"
  /\ req' = [route |-> "auth", method |-> "POST", token |-> NoToken]
  /\ IF isAdmin
     THEN /\ resp' = AuthResponse(Bool(password = adminPw), isAdmin)
          /\ verify' = verify
     ELSE /\ resp' = AuthResponse(CloudflareVerifyPassword(password), isAdmin)
          /\ verify' = Verified(password, CloudflareVerifyPassword(password))
  /\ UNCHANGED <<deploy, dbState, adminPw, stored>>
  /\ UNCHANGED nonHttp

\* The store goes down or comes back.
StoreFlips ==
  /\ dbState \in {"up", "down"}
  /\ dbState' = IF dbState = "up" THEN "down" ELSE "up"
  /\ UNCHANGED <<deploy, adminPw, stored, req, resp, verify>>
  /\ UNCHANGED nonHttp

Methods == {"GET", "POST"}

NextHttp ==
  \/ \E tok \in Tokens : ExpressApiConfig(tok)
  \/ \E tok \in Tokens : ExpressAdminGet(tok)
  \/ \E tok \in Tokens, c \in ConfigRecs : ExpressAdminPost(tok, c)
  \/ \E tok \in Tokens : ExpressHomeConfig(tok)
  \/ \E password \in Candidates, isAdmin \in BOOLEAN : ExpressAuthVerify(password, isAdmin)
  \/ \E method \in Methods, tok \in Tokens, c \in ConfigRecs : VercelAdminConfig(method, tok, c)
  \/ \E method \in Methods, tok \in Tokens : VercelHomeConfig(method, tok)
  \/ \E password \in Candidates, isAdmin \in BOOLEAN : VercelAuth(password, isAdmin)
  \/ \E method \in Methods, isHome \in BOOLEAN, tok \in Tokens, c \in ConfigRecs :
       HandleConfigRequest(method, isHome, tok, c)
  \/ \E password \in Candidates, isAdmin \in BOOLEAN : HandleAuthRequest(password, isAdmin)
  \/ StoreFlips

SpecHttp == InitHttp /\ [][NextHttp]_vars

\* ---------------------------------------------------------------------------
\* Login tokens: generateToken and verifyToken of the Express server and of
\* the Vercel functions. jwt.sign takes the payload's iat as the issue time
\* in seconds and sets exp = iat + expiresIn; jwt.verify rejects a bad
\* signature and a token whose exp is not after the clock in seconds.

\* Date.now() counts milliseconds, the token library counts seconds.
MsPerSecond == 1000

\* expiresIn: '24h', in seconds.
ExpiresIn == 86400

\* Half a day of clock time, in milliseconds.
HalfDayMs == (ExpiresIn * MsPerSecond) \div 2

\* How many half days the clock advances.
MaxTicks == 3

Headers == [ua : {"", "unknown", "ua1", "ua2"}, ip : {"ip1", "ip2"}]

\* generateDeviceFingerprint. Express encodes the headers it reads, a missing
\* user-agent as 'unknown'; the Vercel auth function joins user-agent and
\* address.
GenerateDeviceFingerprint(srv, h) ==
  IF srv = "express"
  THEN "b64:" \o (IF h.ua = "" THEN "unknown" ELSE h.ua) \o "," \o h.ip
  ELSE h.ua \o "|" \o h.ip

\* generateToken(isAdmin, req) at the time t = Date.now().
GenerateToken(srv, isAdmin, h, t) ==
  [isAdmin |-> isAdmin,
   deviceFingerprint |-> GenerateDeviceFingerprint(srv, h),
   iat |-> t, exp |-> t + ExpiresIn, signed |-> TRUE, h1 |-> h]

\* jwt.verify(token, secret) at the time t = Date.now().
JwtVerify(tok, t) == tok.signed /\ (t \div MsPerSecond) < tok.exp

\* verifyToken: Express compares the fingerprint of the presenting request,
\* the Vercel functions (admin config, home config) only call jwt.verify.
VerifyTokenAt(srv, tok, h, t) ==
  IF srv = "express"
  THEN JwtVerify(tok, t) /\ tok.deviceFingerprint = GenerateDeviceFingerprint(srv, h)
  ELSE JwtVerify(tok, t)

\* The functions that verify a token on a server.
VerifierFns(srv) == IF srv = "express" THEN {"verifyToken"} ELSE {"admin", "home"}

InitToken ==
  /\ InitFacade
  /\ env = NoConfig
  /\ StoreIdle
  /\ HandlerIdle
  /\ HttpIdle
  /\ server \in {"express", "vercel"}
  /\ now = StartMs
  /\ held = NoHeld
  /\ verdict = NoVerdict
  /\ ReadIdle
  /\ OpIdle
  /\ ParseIdle
  /\ MwIdle

\* A login succeeds: the auth handler answers with generateToken(isAdmin, req).
\* The verdict on the token held before is no longer looked at.
IssueToken(isAdmin, h) ==
  /\ held' = GenerateToken(server, isAdmin, h, now)
  /\ verdict' = NoVerdict
  /\ UNCHANGED <<server, now>>
  /\ UNCHANGED nonToken

\* The client makes up a token without the server's secret.
ForgeToken(isAdmin, h) ==
  /\ held' = [GenerateToken(server, isAdmin, h, now) EXCEPT !.signed = FALSE]
  /\ verdict' = NoVerdict
  /\ UNCHANGED <<server, now>>
  /\ UNCHANGED nonToken

\* Half a day passes.
Tick ==
  /\ now < StartMs + MaxTicks * HalfDayMs
  /\ now' = now + HalfDayMs
  /\ UNCHANGED <<server, held, verdict>>
  /\ UNCHANGED nonToken

\* A request with the headers h presents the token: verifyToken is called.
PresentToken(fn, h) ==
  /\ held # NoHeld
  /\ fn \in VerifierFns(server)
  /\ verdict' = [called |-> TRUE, fn |-> fn, token |-> held, headers |-> h,
                 at |-> now, accepted |-> VerifyTokenAt(server, held, h, now)]
  /\ UNCHANGED <<server, now, held>>
  /\ UNCHANGED nonToken

NextToken ==
  \/ \E isAdmin \in BOOLEAN, h \in Headers : IssueToken(isAdmin, h)
  \/ \E isAdmin \in BOOLEAN, h \in Headers : ForgeToken(isAdmin, h)
  \/ Tick
  \/ \E fn \in {"verifyToken", "admin", "home"}, h \in Headers : PresentToken(fn, h)

SpecToken == InitToken /\ [][NextToken]_vars

\* ---------------------------------------------------------------------------
\* Configuration reads on their own: getConfig of the Cloudflare config
\* handler and getPublicConfig of the Cloudflare and Express handlers, over
\* what the store hands back.

\* The records a store may hold: with a loginPassword (set or empty) or
\* without the field.
ReadRecs == ConfigRecs \cup [enableLogin : BOOLEAN, customTitle : {"t"}]

\* What db.get('config') hands back.
GetOutcomes == {Throws, GotNull, GotFalsy} \cup {Got(c) : c \in ReadRecs}

\* What initDatabaseFromEnv hands back.
InitOutcomeSet == {"true", "false", "throws"}

InitRead ==
  /\ InitFacade
  /\ env = NoConfig
  /\ StoreIdle
  /\ HandlerIdle
  /\ HttpIdle
  /\ TokenIdle
  /\ ReadIdle
  /\ OpIdle
  /\ ParseIdle
  /\ MwIdle

\* getConfig(env) is called and returns.
GetConfigCall(init, get) ==
  /\ cfgRead' = [called |-> TRUE, init |-> init, get |-> get,
                 out |-> GetConfigOf(init, get)]
  /\ UNCHANGED pubRead
  /\ UNCHANGED nonRead

\* getPublicConfig(env) of the Cloudflare server is called and returns.
CloudflareGetPublicConfig(init, get) ==
  /\ pubRead' = [called |-> TRUE, impl |-> "cloudflare",
                 config |-> GetConfigOf(init, get).v,
                 out |-> PublicConfig(GetConfigOf(init, get).v)]
  /\ UNCHANGED cfgRead
  /\ UNCHANGED nonRead

\* getPublicConfig() of the Express config handlers is called and returns.
ExpressGetPublicConfig(db, rws) ==
  /\ pubRead' = [called |-> TRUE, impl |-> "express",
                 config |-> ExpressGetConfigOf(db, rws),
                 out |-> PublicConfig(ExpressGetConfigOf(db, rws))]
  /\ UNCHANGED cfgRead
  /\ UNCHANGED nonRead

NextRead ==
  \/ \E i \in InitOutcomeSet, g \in GetOutcomes : GetConfigCall(i, g)
  \/ \E i \in InitOutcomeSet, g \in GetOutcomes : CloudflareGetPublicConfig(i, g)
  \/ \E db \in {"unset", "down", "up"}, rws \in {<<>>} \cup {<<c>> : c \in ReadRecs} :
       ExpressGetPublicConfig(db, rws)

SpecRead == InitRead /\ [][NextRead]_vars

\* ---------------------------------------------------------------------------
\* The operations of one adapter, called one after another, with every store
\* access either succeeding or failing. A SQL operation borrows a connection
\* from the pool and releases it; a Postgres operation opens a connection of
\* its own and ends it (sql.end() closes what was opened and does not fail;
\* connection.release() does not fail). A statement that fails inside a
\* transaction callback makes the callback throw.

MaxOps == 3

OpNames == {"initialize", "get", "set", "delete", "list", "query", "transaction"}

\* The ids a transaction callback writes through its handle.
TxItems == {"a", "b"}

\* What an operation returns when every store access succeeded.
Success(name) ==
  CASE name = "get" -> IF "config" \in tbl THEN "value" ELSE "null"
    [] name = "list" -> "keys"
    [] name = "query" -> "rows"
    [] name = "transaction" -> "result"
    [] OTHER -> "true"

\* What the catch block of an operation returns (transaction rethrows).
Failure(name) ==
  CASE name = "get" -> "null"
    [] name \in {"list", "query"} -> "empty"
    [] name = "transaction" -> "throws"
    [] OTHER -> "false"

Finish(o, ret) == [o EXCEPT !.pc = "done", !.ret = ret]

Failed(o) == [o EXCEPT !.failed = TRUE]

\* pool.getConnection() / the first statement on a fresh postgres client.
Take(o) == [o EXCEPT !.took = @ + 1]

\* A release that is skipped once a store access has failed.
ReleaseUnlessFailed(o) == IF o.failed THEN o ELSE [o EXCEPT !.gave = @ + 1]

\* finally { connection.release() } / finally { await sql.end() }.
Release(o) == [o EXCEPT !.gave = @ + 1]

\* A catch block that lets the error go on to the caller.
Uncaught(o) == Finish(Failed(o), "throws")

\* catch (error) { console.error(...); return null / false / [] }.
Caught(o) == Finish(Failed(o), Failure(o.name))

\* if (!this.pool) return ...; if (!this.kvNamespace) return ...;
\* if (!this.initialized && !(await this.initialize())) return ...
Unavailable(o) == Finish(Failed(o), Failure(o.name))

\* The rows after the writes of o: those of a plain delete or set, and those
\* a transaction made through its connection, once committed.
TableWritesAtOnce(o, committed) ==
  IF o.name = "delete" THEN tbl \ {"config"} ELSE tbl \cup o.txw

TableAfter(o, committed) ==
  IF ~committed THEN tbl
  ELSE IF o.name = "delete" THEN tbl \ {"config"}
  ELSE tbl \cup o.txw

\* Whether transaction() of the handle runs the callback it is given:
\* the SQL handle throws, the Postgres handle calls cb(tempAdapter).
NestedRuns(kind) == kind = "pg"

\* The step after the connection is there.
BodyStart(kind, name) ==
  CASE kind = "sql" /\ name \in {"set", "transaction"} -> "begin"
    [] kind = "sql" -> "statement"
    [] name = "transaction" -> "pgBegin"
    [] OTHER -> "pgStatement"

\* What follows initialize(): its own return value, or the rest of the
\* operation that called it.
AfterInitialize(o, ok) ==
  IF ~o.inline THEN Finish(IF ok THEN o ELSE Failed(o), IF ok THEN "true" ELSE "false")
  ELSE IF ~ok THEN Unavailable(o)
  ELSE [o EXCEPT !.pc = IF aKind = "sql" THEN "getConnection"
                          ELSE BodyStart(aKind, o.name)]

\* The operation moves on to o2; the connections it took and gave back are
\* counted.
Advance(o2) ==
  /\ opn' = o2
  /\ inUse' = inUse + (o2.took - opn.took) - (o2.gave - opn.gave)

InitOps ==
  /\ InitFacade
  /\ env = NoConfig
  /\ StoreIdle
  /\ HandlerIdle
  /\ HttpIdle
  /\ TokenIdle
  /\ ReadIdle
  /\ aKind \in {"sql", "pg", "kv"}
  /\ aConf \in CASE aKind = "sql" -> {"unset", "set"}
                 [] aKind = "pg" -> {"set"}
                 [] OTHER -> {"unset", "string", "object"}
  /\ pool = FALSE
  /\ aInit = FALSE
  /\ tbl \in {{}, {"config"}}
  /\ opn = IdleOp
  /\ inUse = 0
  /\ opCount = 0
  /\ ParseIdle
  /\ MwIdle

\* An operation of the adapter is called.
OpStart(name, arg) ==
  /\ opn.pc \in {"idle", "done"}
  /\ opCount < MaxOps
  /\ aKind = "kv" => name # "transaction"
  /\ name # "query" => arg = "none"
  /\ opn' = [IdleOp EXCEPT !.name = name, !.pc = "ensure", !.before = tbl,
                           !.arg = arg]
  /\ opCount' = opCount + 1
  /\ UNCHANGED <<aKind, aConf, pool, aInit, tbl, inUse>>
  /\ UNCHANGED nonOp

\* SQLAdapter: the first lines of initialize and of the other operations.
SqlEnsure ==
  /\ aKind = "sql"
  /\ opn.pc = "ensure"
  /\ IF opn.name # "initialize" /\ pool
     THEN Advance([opn EXCEPT !.pc = "getConnection"])
     ELSE LET o == [opn EXCEPT !.inline = opn.name # "initialize"]
          IN IF aInit THEN Advance(AfterInitialize(o, pool \/ ~o.inline))
             ELSE IF aConf = "unset" THEN Advance(AfterInitialize(o, FALSE))
             ELSE Advance([o EXCEPT !.pc = "createPool"])
  /\ UNCHANGED <<aKind, aConf, pool, aInit, tbl, opCount>>
  /\ UNCHANGED nonOp

\* SQLAdapter.initialize: this.pool = mysql.createPool(this.parseDSN(dsn)).
SqlCreatePool(ok) ==
  /\ aKind = "sql"
  /\ opn.pc = "createPool"
  /\ pool' = ok
  /\ IF ok THEN Advance([opn EXCEPT !.pc = "initConnection"])
           ELSE Advance(AfterInitialize(opn, FALSE))
  /\ UNCHANGED <<aKind, aConf, aInit, tbl, opCount>>
  /\ UNCHANGED nonOp

\* SQLAdapter.initialize: await this.pool.getConnection().
SqlInitConnection(ok) ==
  /\ aKind = "sql"
  /\ opn.pc = "initConnection"
  /\ pool' = ok
  /\ IF ok THEN Advance(Take([opn EXCEPT !.pc = "createTable"]))
           ELSE Advance(AfterInitialize(opn, FALSE))
  /\ UNCHANGED <<aKind, aConf, aInit, tbl, opCount>>
  /\ UNCHANGED nonOp

\* SQLAdapter.initialize: CREATE TABLE IF NOT EXISTS, then the finally block.
SqlCreateTable(ok) ==
  /\ aKind = "sql"
  /\ opn.pc = "createTable"
  /\ pool' = ok
  /\ aInit' = (aInit \/ ok)
  /\ Advance(AfterInitialize(Release(IF ok THEN opn ELSE Failed(opn)), ok))
  /\ UNCHANGED <<aKind, aConf, tbl, opCount>>
  /\ UNCHANGED nonOp

\* SQLAdapter: await this.pool.getConnection() of get, set, delete, list,
\* query (inside try) and transaction (before try).
GetConnection(ok) ==
  /\ aKind = "sql"
  /\ opn.pc = "getConnection"
  /\ IF ok THEN Advance(Take([opn EXCEPT !.pc = BodyStart(aKind, opn.name)]))
           ELSE Advance(Caught(opn))
  /\ UNCHANGED <<aKind, aConf, pool, aInit, tbl, opCount>>
  /\ UNCHANGED nonOp

\* SQLAdapter get, delete, list, query: the statement, then the finally block.
SqlStatement(ok) ==
  /\ aKind = "sql"
  /\ opn.pc = "statement"
  /\ IF ok THEN /\ Advance(Finish(Release(opn), Success(opn.name)))
                /\ tbl' = TableAfter(opn, TRUE)
           ELSE /\ Advance(Caught(Release(Failed(opn))))
                /\ tbl' = tbl
  /\ UNCHANGED <<aKind, aConf, pool, aInit, opCount>>
  /\ UNCHANGED nonOp

\* SQLAdapter set and transaction: await connection.beginTransaction().
BeginTransaction(ok) ==
  /\ aKind = "sql"
  /\ opn.pc = "begin"
  /\ IF ok THEN Advance([opn EXCEPT !.pc = IF opn.name = "set" THEN "select"
                                          ELSE "callback"])
           ELSE Advance([Failed(opn) EXCEPT !.pc = "rollback"])
  /\ UNCHANGED <<aKind, aConf, pool, aInit, tbl, opCount>>
  /\ UNCHANGED nonOp

\* SQLAdapter.set: SELECT id ... WHERE id = 1.
SetSelect(ok) ==
  /\ aKind = "sql"
  /\ opn.pc = "select"
  /\ IF ok THEN Advance([opn EXCEPT !.pc = "write"])
           ELSE Advance([Failed(opn) EXCEPT !.pc = "rollback"])
  /\ UNCHANGED <<aKind, aConf, pool, aInit, tbl, opCount>>
  /\ UNCHANGED nonOp

\* SQLAdapter.set: the UPDATE or INSERT.
SetWrite(ok) ==
  /\ aKind = "sql"
  /\ opn.pc = "write"
  /\ IF ok THEN Advance([opn EXCEPT !.pc = "commit", !.txw = {"config"}])
           ELSE Advance([Failed(opn) EXCEPT !.pc = "rollback"])
  /\ UNCHANGED <<aKind, aConf, pool, aInit, tbl, opCount>>
  /\ UNCHANGED nonOp

\* The handle's query (SQL) or get/set/delete/list/query (Postgres) inside a
\* transaction callback, writing the row item.
HandleQuery(item, ok) ==
  /\ opn.pc = "callback"
  /\ IF ok THEN Advance([opn EXCEPT !.txw = @ \cup {item}])
           ELSE Advance([Failed(opn) EXCEPT !.pc = "rollback"])
  /\ UNCHANGED <<aKind, aConf, pool, aInit, tbl, opCount>>
  /\ UNCHANGED nonOp

\* Whether the handle has the method m. The SQL handle is the object literal
\* { ...this, query, transaction }: the spread copies the own properties of
\* the adapter (its fields), and the methods of the class are on its
\* prototype. The Postgres handle defines every method itself.
HandleHas(kind, m) == kind = "pg" \/ m \in {"query", "transaction"}

\* The callback calls get, set, delete or list on its handle. Calling a
\* method the handle does not have throws a TypeError out of the callback.
HandleCall(m, ok) ==
  /\ opn.pc = "callback"
  /\ IF ~HandleHas(aKind, m)
     THEN Advance([opn EXCEPT !.missing = TRUE, !.pc = "rollback"])
     ELSE IF ok
     THEN Advance([opn EXCEPT !.txw = IF m = "set" THEN @ \cup {"config"} ELSE @])
     ELSE Advance([Failed(opn) EXCEPT !.pc = "rollback"])
  /\ UNCHANGED <<aKind, aConf, pool, aInit, tbl, opCount>>
  /\ UNCHANGED nonOp

\* The callback calls transaction(cb) on its handle.
HandleTransaction ==
  /\ opn.pc = "callback"
  /\ IF NestedRuns(aKind)
     THEN Advance([opn EXCEPT !.nestedCalled = TRUE, !.nestedRan = TRUE])
     ELSE Advance([opn EXCEPT !.nestedCalled = TRUE, !.pc = "rollback"])
  /\ UNCHANGED <<aKind, aConf, pool, aInit, tbl, opCount>>
  /\ UNCHANGED nonOp

\* The callback throws an error of its own.
CallbackThrows ==
  /\ opn.pc = "callback"
  /\ Advance([opn EXCEPT !.pc = "rollback"])
  /\ UNCHANGED <<aKind, aConf, pool, aInit, tbl, opCount>>
  /\ UNCHANGED nonOp

\* The callback returns.
CallbackReturns ==
  /\ opn.pc = "callback"
  /\ Advance([opn EXCEPT !.pc = "commit"])
  /\ UNCHANGED <<aKind, aConf, pool, aInit, tbl, opCount>>
  /\ UNCHANGED nonOp

\* await connection.commit() of set and transaction; COMMIT of sql.begin.
\* A commit that fails goes to the catch block.
CommitTransaction(ok) ==
  /\ opn.pc = "commit"
  /\ IF ok THEN /\ Advance(Finish(Release(opn), Success(opn.name)))
                /\ tbl' = TableAfter(opn, TRUE)
           ELSE /\ Advance([Failed(opn) EXCEPT !.pc = "rollback"])
                /\ tbl' = tbl
  /\ UNCHANGED <<aKind, aConf, pool, aInit, opCount>>
  /\ UNCHANGED nonOp

\* catch { await connection.rollback(); throw error } finally { release }:
\* set's outer catch returns false, transaction throws. sql.begin rolls back
\* and rejects, and the finally block ends the connection.
RollbackTransaction(ok) ==
  /\ opn.pc = "rollback"
  /\ LET o == Release(IF ok THEN opn ELSE Failed(opn))
     IN IF opn.name = "set" THEN Advance(Caught(o))
                           ELSE Advance(Finish(o, "throws"))
  /\ tbl' = TableAfter(opn, FALSE)
  /\ UNCHANGED <<aKind, aConf, pool, aInit, opCount>>
  /\ UNCHANGED nonOp

\* PgAdapter: the first line of initialize and of the other operations.
PgEnsure ==
  /\ aKind = "pg"
  /\ opn.pc = "ensure"
  /\ LET o == [opn EXCEPT !.inline = opn.name # "initialize"]
     IN IF aInit THEN Advance(AfterInitialize(o, TRUE))
                 ELSE Advance([o EXCEPT !.pc = "select1"])
  /\ UNCHANGED <<aKind, aConf, pool, aInit, tbl, opCount>>
  /\ UNCHANGED nonOp

\* PgAdapter.initialize: SELECT 1 on a fresh client. The store is not
\* reachable (no connection comes up), or the connection is up and the
\* statement succeeds or fails.
PgSelect1(f) ==
  /\ aKind = "pg"
  /\ opn.pc = "select1"
  /\ CASE f = "ok" -> Advance(Take([opn EXCEPT !.pc = "pgCreateTable"]))
       [] f = "unreachable" -> Advance(AfterInitialize(Failed(opn), FALSE))
       [] OTHER -> Advance(AfterInitialize(Take(Failed(opn)), FALSE))
  /\ UNCHANGED <<aKind, aConf, pool, aInit, tbl, opCount>>
  /\ UNCHANGED nonOp

\* PgAdapter.initialize: CREATE TABLE IF NOT EXISTS, then await sql.end() on
\* the success path; the catch block returns false.
PgCreateTable(ok) ==
  /\ aKind = "pg"
  /\ opn.pc = "pgCreateTable"
  /\ aInit' = ok
  /\ IF ok THEN Advance(AfterInitialize(Release(opn), TRUE))
           ELSE Advance(AfterInitialize(Failed(opn), FALSE))
  /\ UNCHANGED <<aKind, aConf, pool, tbl, opCount>>
  /\ UNCHANGED nonOp

\* PgAdapter get, set, delete, list, query: the statement on a fresh client,
\* the catch block, and await sql.end() in the finally block.
PgStatement(f) ==
  /\ aKind = "pg"
  /\ opn.pc = "pgStatement"
  /\ CASE f = "ok" ->
            /\ Advance(Finish(Release(Take(opn)), Success(opn.name)))
            /\ tbl' = TableAfter([opn EXCEPT !.txw = IF opn.name = "set"
                                                    THEN {"config"} ELSE {}], TRUE)
       [] f = "unreachable" -> Advance(Caught(opn)) /\ tbl' = tbl
       [] OTHER -> Advance(Caught(Release(Take(Failed(opn))))) /\ tbl' = tbl
  /\ UNCHANGED <<aKind, aConf, pool, aInit, opCount>>
  /\ UNCHANGED nonOp

\* PgAdapter.transaction: sql.begin opens the transaction; when it cannot,
\* the finally block ends the connection and the error goes to the caller.
PgBegin(f) ==
  /\ aKind = "pg"
  /\ opn.pc = "pgBegin"
  /\ CASE f = "ok" -> Advance(Take([opn EXCEPT !.pc = "callback"]))
       [] f = "unreachable" -> Advance(Finish(Failed(opn), "throws"))
       [] OTHER -> Advance(Finish(Release(Take(Failed(opn))), "throws"))
  /\ UNCHANGED <<aKind, aConf, pool, aInit, tbl, opCount>>
  /\ UNCHANGED nonOp

\* A query that refuses: the key-value store supports no SQL.
KvQueryRefuses(arg) == "throws"

\* KVAdapter.query: console.warn(...); return [].
KvQuery(arg) == "empty"

\* KVAdapter: every operation is one call of the namespace object, if there
\* is one with the method; initialize and query do not call it.
KvCall(ok) ==
  /\ aKind = "kv"
  /\ opn.pc = "ensure"
  /\ aInit' = IF opn.name = "initialize" THEN aInit \/ aConf = "object" ELSE aInit
  /\ CASE opn.name = "initialize" ->
            /\ Advance(Finish(opn, IF aConf = "object" THEN "true" ELSE "false"))
            /\ tbl' = tbl
       [] opn.name = "query" -> Advance(Finish(opn, KvQuery(opn.arg))) /\ tbl' = tbl
       [] aConf # "object" -> Advance(Unavailable(opn)) /\ tbl' = tbl
       [] ok -> /\ Advance(Finish([opn EXCEPT !.kvCalls = @ + 1], Success(opn.name)))
                /\ tbl' = TableAfter([opn EXCEPT !.txw = IF opn.name = "set"
                                                        THEN {"config"} ELSE {}], TRUE)
       [] OTHER -> Advance(Caught([opn EXCEPT !.kvCalls = @ + 1])) /\ tbl' = tbl
  /\ UNCHANGED <<aKind, aConf, pool, opCount>>
  /\ UNCHANGED nonOp

PgFaults == {"ok", "unreachable", "stmt"}

\* The query text and parameters handed to query (none for the other
\* operations): a statement the store would run, and one it would reject.
QueryArgs == {"none", "SELECT", "not SQL"}

NextOps ==
  \/ \E name \in OpNames, arg \in QueryArgs : OpStart(name, arg)
  \/ SqlEnsure
  \/ \E ok \in BOOLEAN : SqlCreatePool(ok)
  \/ \E ok \in BOOLEAN : SqlInitConnection(ok)
  \/ \E ok \in BOOLEAN : SqlCreateTable(ok)
  \/ \E ok \in BOOLEAN : GetConnection(ok)
  \/ \E ok \in BOOLEAN : SqlStatement(ok)
  \/ \E ok \in BOOLEAN : BeginTransaction(ok)
  \/ \E ok \in BOOLEAN : SetSelect(ok)
  \/ \E ok \in BOOLEAN : SetWrite(ok)
  \/ \E item \in TxItems, ok \in BOOLEAN : HandleQuery(item, ok)
  \/ \E m \in {"get", "set", "delete", "list"}, ok \in BOOLEAN : HandleCall(m, ok)
  \/ HandleTransaction
  \/ CallbackThrows
  \/ CallbackReturns
  \/ \E ok \in BOOLEAN : CommitTransaction(ok)
  \/ \E ok \in BOOLEAN : RollbackTransaction(ok)
  \/ PgEnsure
  \/ \E f \in PgFaults : PgSelect1(f)
  \/ \E ok \in BOOLEAN : PgCreateTable(ok)
  \/ \E f \in PgFaults : PgStatement(f)
  \/ \E f \in PgFaults : PgBegin(f)
  \/ \E ok \in BOOLEAN : KvCall(ok)

SpecOps == InitOps /\ [][NextOps]_vars

\* ---------------------------------------------------------------------------
\* parseDSN of the SQL adapter and of utils/db.ts (the two are the same code).
\* A string is a sequence of characters; the literal "tcp(" that parseDSN
\* removes from the host counts as one character.

MaxCredLen == 3
MaxRestLen == 5

\* The characters of the credentials and of the text after the '@'.
CredChars == {"a", ":"}
RestChars == {"a", "1", ":", "/", "tcp(", ")"}

DigitChars == {"1"}

\* The JavaScript values undefined and NaN.
Undefined == <<"undefined">>
NaN == <<"NaN">>

SeqsUpTo(S, n) == UNION {[1..k -> S] : k \in 0..n}

\* The DSNs parsed: credentials, one '@', and the rest.
DSNs ==
  {c \o <<"@">> \o r : c \in SeqsUpTo(CredChars, MaxCredLen),
                        r \in SeqsUpTo(RestChars, MaxRestLen)}

\* str.indexOf(sep) + 1 (0 when sep does not occur).
IndexOf(str, sep) ==
  IF \E i \in 1..Len(str) : str[i] = sep
  THEN Min({i \in 1..Len(str) : str[i] = sep})
  ELSE 0

\* str.split(sep): the pieces between the occurrences of sep.
RECURSIVE Split(_, _)
Split(str, sep) ==
  IF IndexOf(str, sep) = 0 THEN <<str>>
  ELSE <<SubSeq(str, 1, IndexOf(str, sep) - 1)>> \o
       Split(SubSeq(str, IndexOf(str, sep) + 1, Len(str)), sep)

\* const [x, y] = arr: element i of the array, undefined past its end.
Element(arr, i) == IF i <= Len(arr) THEN arr[i] ELSE Undefined

\* str.replace(pat, ''): the first occurrence of pat is removed.
ReplaceFirst(str, pat) ==
  IF IndexOf(str, pat) = 0 THEN str
  ELSE SubSeq(str, 1, IndexOf(str, pat) - 1) \o
       SubSeq(str, IndexOf(str, pat) + 1, Len(str))

\* parseInt(str): the number written by the leading digits, NaN without any.
ParseInt(str) ==
  IF str = Undefined \/ str = <<>> \/ str[1] \notin DigitChars THEN NaN
  ELSE SubSeq(str, 1,
         Min({i \in 1..Len(str) : i = Len(str) \/ str[i + 1] \notin DigitChars}))

\* parseDSN(dsn). It throws a TypeError when a piece it splits is undefined.
ParseDSN(d) ==
  LET auth == Element(Split(d, "@"), 1)
      rest == Element(Split(d, "@"), 2)
  IN IF rest = Undefined THEN [called |-> TRUE, threw |-> TRUE]
     ELSE LET username == Element(Split(auth, ":"), 1)
              password == Element(Split(auth, ":"), 2)
              host == Element(Split(rest, "/"), 1)
              dbName == Element(Split(rest, "/"), 2)
              hostname == Element(Split(host, ":"), 1)
              port == Element(Split(host, ":"), 2)
          IN [called |-> TRUE, threw |-> FALSE,
              host |-> ReplaceFirst(ReplaceFirst(hostname, "tcp("), ")"),
              port |-> ParseInt(port),
              user |-> username,
              password |-> password,
              database |-> dbName]

InitParse ==
  /\ InitFacade
  /\ env = NoConfig
  /\ StoreIdle
  /\ HandlerIdle
  /\ HttpIdle
  /\ TokenIdle
  /\ ReadIdle
  /\ OpIdle
  /\ MwIdle
  /\ dsn \in DSNs
  /\ parsed = NotParsed

\* mysql.createPool(this.parseDSN(this.dsn)): the DSN is parsed.
ParseCall ==
  /\ ~parsed.called
  /\ parsed' = ParseDSN(dsn)
  /\ UNCHANGED dsn
  /\ UNCHANGED nonParse

NextParse == ParseCall

SpecParse == InitParse /\ [][NextParse]_vars

\* ---------------------------------------------------------------------------
\* The API middleware: requests pass through it concurrently, each await is
\* a point where another request may run. setupDatabase catches what
\* initializeDatabase throws and always returns.

InitMiddleware ==
  /\ InitFacade
  /\ env = NoConfig
  /\ StoreIdle
  /\ HandlerIdle
  /\ HttpIdle
  /\ TokenIdle
  /\ ReadIdle
  /\ OpIdle
  /\ ParseIdle
  /\ MwIdle

\* middleware(req, res, next) up to its first await: a preflight request is
\* answered at once; with initialized unset setupDatabase is started and
\* awaited; otherwise next() is called.
MiddlewareEnter(r, method) ==
  /\ mwReqs[r].pc = "idle"
  /\ IF method = "OPTIONS"
     THEN /\ mwReqs' = [mwReqs EXCEPT ![r] = [pc |-> "ended", method |-> method]]
          /\ setups' = setups
     ELSE IF ~mwInitialized
     THEN /\ mwReqs' = [mwReqs EXCEPT ![r] = [pc |-> "setup", method |-> method]]
          /\ setups' = setups + 1
     ELSE /\ mwReqs' = [mwReqs EXCEPT ![r] = [pc |-> "next", method |-> method]]
          /\ setups' = setups
  /\ UNCHANGED mwInitialized
  /\ UNCHANGED nonMw

\* The await of setupDatabase() is over: initialized = true, then next().
SetupAwaited(r) ==
  /\ mwReqs[r].pc = "setup"
  /\ mwInitialized' = TRUE
  /\ mwReqs' = [mwReqs EXCEPT ![r].pc = "next"]
  /\ UNCHANGED setups
  /\ UNCHANGED nonMw

\* The request is over.
RequestEnds(r) ==
  /\ mwReqs[r].pc \in {"next", "ended"}
  /\ mwReqs' = [mwReqs EXCEPT ![r] = IdleRequest]
  /\ UNCHANGED <<mwInitialized, setups>>
  /\ UNCHANGED nonMw

NextMiddleware ==
  \/ \E r \in 1..MaxRequests, method \in {"GET", "POST", "OPTIONS"} :
       MiddlewareEnter(r, method)
  \/ \E r \in 1..MaxRequests : SetupAwaited(r)
  \/ \E r \in 1..MaxRequests : RequestEnds(r)

SpecMiddleware == InitMiddleware /\ [][NextMiddleware]_vars

\* ---------------------------------------------------------------------------
\* Claims about the facade

\* The candidates present in a configuration, in priority order.
Present(cfg) ==
  (IF cfg.sql THEN <<"sql">> ELSE <<>>) \o
  (IF cfg.pg THEN <<"pg">> ELSE <<>>) \o
  (IF cfg.kv # "none" THEN <<"kv">> ELSE <<>>)

\* C1: an initialize call made on the unbound facade, with no other call in
\* flight, tries the present candidates in the order SQL, Postgres, key-value,
\* each once and only after the one before failed; constructs no adapter it
\* does not try; returns true bound to the first whose initialize() succeeded;
\* returns false, leaving adapter null and initialized false, exactly when
\* every present candidate failed or none is present.
C1_PriorityOrder ==
  \A c \in Calls :
    (calls[c].pc = "done" /\ ~calls[c].wasBound) =>
      LET r == calls[c]
          cand == Present(r.cfg)
          n == Len(r.tried)
      IN /\ r.ret \in {"true", "false"}
         /\ n <= Len(cand)
         /\ r.tried = SubSeq(cand, 1, n)
         /\ r.made = r.tried
         /\ Len(r.outs) = n
         /\ \A i \in 1..(n - 1) : ~r.outs[i]
         /\ (r.ret = "true") <=> (n > 0 /\ r.outs[n])
         /\ (r.ret = "true") =>
               /\ adapter # 0
               /\ adapter = Len(inst)
               /\ inst[adapter].kind = r.tried[n]
               /\ inst[adapter].inited
               /\ initialized
         /\ (r.ret = "false") <=> (n = Len(cand) /\ \A i \in 1..n : ~r.outs[i])
         /\ (r.ret = "false") => (adapter = 0 /\ ~initialized)

\* C1 witness: all three candidates present, SQL and Postgres failed, the call
\* bound the key-value adapter and returned true.
C1_Witness ==
  \E c \in Calls :
    /\ calls[c].pc = "done"
    /\ ~calls[c].wasBound
    /\ calls[c].tried = <<"sql", "pg", "kv">>
    /\ calls[c].ret = "true"

\* C2: an initialize call made while the facade is bound returns true at once
\* and leaves the facade, every adapter instance and every pool as they were,
\* whatever configuration it is given.
C2_BoundInitializeIsNoOp ==
  [][\A c \in Calls :
       (calls[c].pc = "idle" /\ calls'[c].pc # "idle"
          /\ initialized /\ adapter # 0) =>
         /\ calls'[c].pc = "done"
         /\ calls'[c].ret = "true"
         /\ calls'[c].made = <<>>
         /\ calls'[c].tried = <<>>
         /\ adapter' = adapter
         /\ initialized' = initialized
         /\ inst' = inst
         /\ pools' = pools]_vars

\* C2 witness: the facade is bound to the key-value adapter and an initialize
\* call given a configuration with a SQL DSN has returned.
C2_Witness ==
  \E c \in Calls :
    /\ calls[c].pc = "done"
    /\ calls[c].wasBound
    /\ calls[c].cfg.sql
    /\ adapter # 0
    /\ inst[adapter].kind = "kv"

\* The SQL adapter instances that hold a pool which is open.
OpenPoolAdapters ==
  {a \in 1..Len(inst) :
     inst[a].kind = "sql" /\ inst[a].pool # 0 /\ pools[inst[a].pool] = "open"}

\* C3: at most one adapter with an open connection pool exists, whatever the
\* interleaving of initialize and close calls.
C3_AtMostOneOpenPool == Cardinality(OpenPoolAdapters) <= 1

\* C4: a forwarder called while no initialize call has returned true since
\* construction or since the last close throws the not-initialized error and
\* calls no adapter.
C4_ForwardersRaiseUnlessBound ==
  (fwd.op # "none" /\ ~bound) => fwd.raised


\* ---------------------------------------------------------------------------
\* Claims about the adapters' set and get

\* The rows of the store that hold the singleton record.
ConfigRows == RowsWithId(rows, ConfigId(stKind))

\* C5: on each adapter, once set("config", A) and then set("config", B) have
\* both returned true, get("config") returns exactly B and the store holds
\* exactly one row or entry for the singleton key.
C5_UpsertThenGet ==
  (getter.pc = "done" /\ Len(okSets) = 2) =>
    /\ getter.result = okSets[2]
    /\ Cardinality(ConfigRows) = 1

\* C5 witness: on the SQL adapter and a store that was empty, set(A) and
\* set(B) have returned true and the get after them has returned B.
C5_Witness ==
  /\ stKind = "sql"
  /\ okSets = <<Obj("A"), Obj("B")>>
  /\ getter.pc = "done"
  /\ getter.result = Obj("B")

\* C6: on the SQL and Postgres adapters, once concurrent set("config", _)
\* calls with different values have all completed, the store holds exactly
\* one record for the singleton key and its value is that of one of the calls.
C6_ConcurrentSetsKeepOneRecord ==
  ( /\ stKind \in {"sql", "pg"}
    /\ \A s \in Setters : setters[s].pc = "done"
    /\ \E s, t \in Setters : setters[s].value # setters[t].value ) =>
    /\ Cardinality(ConfigRows) = 1
    /\ \E s \in Setters :
         \A i \in ConfigRows : rows[i].config = setters[s].value

\* C6 witness: two SQL set calls that both found the table empty have
\* completed; the INSERT of one was rejected and it returned false.
C6_Witness ==
  /\ stKind = "sql"
  /\ \A s \in Setters : setters[s].pc = "done" /\ ~setters[s].saw
  /\ \E s, t \in Setters :
       /\ setters[s].value # setters[t].value
       /\ setters[s].ret = "true"
       /\ setters[t].ret = "false"


\* ---------------------------------------------------------------------------
\* Claims about the handler path

\* C7: once the updateConfig calls made so far have completed, configs holds
\* at most one row, and a getConfig answered then returns the payload of the
\* update that completed last.
C7_HandlerPathKeepsOneRow ==
  /\ NoUpdateInFlight => Len(hRows) <= 1
  /\ (reader.pc = "done" /\ reader.quiet /\ reader.last # Null) =>
       reader.result = reader.last


\* ---------------------------------------------------------------------------
\* Claims about the HTTP handlers

\* C8: a response to a request that carries no token accepted by verification
\* never contains the loginPassword field, plain or encoded, on any
\* deployment path.
C8_NoPasswordWithoutToken ==
  (resp # NoResp /\ ~VerifyToken(deploy, req.token)) =>
    "loginPassword" \notin DOMAIN resp.body

\* C9: the stored configuration record is modified only by a request that
\* carries an accepted admin token; a configuration POST without one leaves
\* the store unchanged and is answered 401 or 403, on every deployment path.
C9_OnlyAdminModifiesConfig ==
  LET admin == VerifyToken(deploy, req.token) /\ req.token.kind = "admin"
  IN /\ resp.wrote => admin
     /\ (req.method = "POST" /\ req.route = "admin" /\ ~admin) =>
          resp.status \in {401, 403}

\* C10: regular-user verifyPassword returns true only if the current
\* configuration has enableLogin = true and the candidate equals its
\* loginPassword; it returns false when login is disabled, when no record
\* exists and when the store cannot be read, in every implementation.
C10_VerifyPasswordNeedsEnabledLogin ==
  verify.called =>
    LET readable == verify.db = "up" /\ verify.rows # <<>>
        enabled == readable /\ verify.rows[1].enableLogin
    IN /\ verify.result = "true" =>
            (enabled /\ verify.candidate = verify.rows[1].loginPassword)
       /\ ~enabled => verify.result = "false"


\* ---------------------------------------------------------------------------
\* Claims about the login tokens

\* The presented token was issued by the server less than 24 hours before.
FreshIssued ==
  /\ verdict.called
  /\ verdict.token.signed
  /\ verdict.at - verdict.token.iat < ExpiresIn * MsPerSecond

\* C11: on every server path that verifies tokens, a token issued for a
\* request with headers H1 is rejected when the presenting request has a
\* different user-agent header, even before expiry, and is accepted when the
\* presenting request replays H1 exactly.
C11_TokenBoundToUserAgent ==
  FreshIssued =>
    /\ verdict.headers.ua # verdict.token.h1.ua => ~verdict.accepted
    /\ verdict.headers = verdict.token.h1 => verdict.accepted

\* C12: a token issued by generateToken is rejected whenever it is presented
\* 24 hours or more after it was issued, even with identical headers, and is
\* accepted only inside that window.
C12_TokenExpiresAfterADay ==
  (verdict.called /\ verdict.token.signed /\ verdict.accepted) =>
    verdict.at - verdict.token.iat < ExpiresIn * MsPerSecond


\* ---------------------------------------------------------------------------
\* Claims about the configuration reads

\* C13: getPublicConfig returns a record with no loginPassword key for every
\* current configuration record, including records whose loginPassword is
\* empty or absent and the default-fallback record.
C13_PublicConfigHasNoPassword ==
  pubRead.called => "loginPassword" \notin DOMAIN pubRead.out

\* C13 witness: getPublicConfig has returned on a configuration whose
\* loginPassword is the empty string, and kept its other fields.
C13_Witness ==
  /\ pubRead.called
  /\ "loginPassword" \in DOMAIN pubRead.config
  /\ pubRead.config.loginPassword = ""
  /\ pubRead.config.customTitle = "t"
  /\ pubRead.out.customTitle = "t"

C15_ReadsLeaveStoreUnchanged ==
  [][req'.method = "GET" => stored' = stored]_vars


\* ---------------------------------------------------------------------------
\* Claims about the adapter operations

\* C16: for each adapter, initialize, get, set, delete, list and query never
\* let a failure escape as an exception, and when the store is unreachable
\* or a statement of the operation fails they return false, null, false,
\* false, the empty list and the empty list.
C16_FailuresBecomeValues ==
  (opn.pc = "done" /\ opn.name # "transaction") =>
    /\ opn.ret # "throws"
    /\ opn.failed =>
         opn.ret = CASE opn.name = "get" -> "null"
                     [] opn.name \in {"list", "query"} -> "empty"
                     [] OTHER -> "false"

\* C16 witness: a Postgres list whose statement failed on an open connection
\* has returned the empty list.
C16_Witness ==
  /\ aKind = "pg"
  /\ opn.pc = "done"
  /\ opn.name = "list"
  /\ opn.failed
  /\ opn.took = 1
  /\ opn.ret = "empty"

\* C17: a SQL or Postgres transaction is atomic: when it returns, the rows
\* are those from before it plus every write the callback made through the
\* handle; when it throws, the rows are those from before it.
C17_TransactionIsAtomic ==
  (aKind \in {"sql", "pg"} /\ opn.pc = "done" /\ opn.name = "transaction") =>
    /\ opn.ret \in {"result", "throws"}
    /\ opn.ret = "result" => tbl = opn.before \cup opn.txw
    /\ opn.ret = "throws" => tbl = opn.before

\* C17 witness: a SQL transaction has thrown after its callback wrote both
\* rows through the handle, and neither row is in the table.
C17_Witness ==
  /\ aKind = "sql"
  /\ opn.pc = "done"
  /\ opn.name = "transaction"
  /\ opn.ret = "throws"
  /\ opn.txw = TxItems
  /\ tbl \cap TxItems = {}

\* C18: transaction called on the handle inside a transaction callback fails
\* at once and the nested callback never runs.
C18_NestedTransactionFails ==
  opn.nestedCalled => (~opn.nestedRan /\ opn.pc \in {"rollback", "done"})

\* C19: when a Postgres adapter operation has completed, every connection it
\* opened has been closed.
C19_PgClosesWhatItOpened ==
  (aKind = "pg" /\ opn.pc = "done") => (opn.gave = opn.took /\ inUse = 0)

\* C20: a SQL adapter operation releases every connection it borrowed exactly
\* once, also when a statement, the commit or the rollback fails: it never
\* holds more than one, never releases more than it borrowed, and between
\* operations no connection is borrowed.
C20_SqlReleasesWhatItBorrowed ==
  aKind = "sql" =>
    /\ opn.gave <= opn.took
    /\ opn.took - opn.gave <= 1
    /\ inUse = opn.took - opn.gave
    /\ opn.pc \in {"idle", "done"} => (opn.gave = opn.took /\ inUse = 0)

\* C20 witness: a SQL transaction in which a store access failed has thrown
\* after borrowing one connection and releasing it.
C20_Witness ==
  /\ aKind = "sql"
  /\ opn.pc = "done"
  /\ opn.name = "transaction"
  /\ opn.failed
  /\ opn.ret = "throws"
  /\ opn.took = 1
  /\ opn.gave = 1


\* ---------------------------------------------------------------------------
\* Further claims about the facade

\* C21: with one call at a time (forwarders included), when Database.close() returns the adapter it
\* found is closed (flag reset, pool ended and dropped), adapter is null and
\* initialized is false; a forwarder called after that and before an
\* initialize has returned true raises; the next
\* initialize with a candidate in its configuration constructs a new adapter
\* and binds it while it initializes; close with no adapter bound returns at
\* once and changes nothing, and closing an adapter instance that was never
\* initialized changes nothing either.
C21_CloseUnbinds ==
  [][/\ (closer.pc = "closing" /\ closer'.pc = "done") =>
          /\ adapter' = 0
          /\ ~initialized'
          /\ ~inst'[closer.tgt].inited
          /\ inst'[closer.tgt].pool = 0
          /\ closer.tgtPool # 0 => pools'[closer.tgtPool] = "ended"
     /\ ((closer.pc = "done" \/ ~bound) /\ fwd = NoFwd /\ fwd' # NoFwd) =>
          fwd'.raised
     /\ \A c \in Calls :
          (/\ ~bound
           /\ calls[c].pc = "idle"
           /\ calls'[c].pc # "idle"
           /\ \E j \in 1..3 : CandidateTaken(j, calls'[c].cfg, 0)) =>
             /\ Len(inst') = Len(inst) + 1
             /\ adapter' = Len(inst')
             /\ calls'[c].pc = "awaitInit"
     /\ (closer.pc = "idle" /\ closer'.pc # "idle" /\ adapter = 0) =>
          /\ closer'.pc = "done"
          /\ UNCHANGED <<adapter, initialized, inst, pools>>
     /\ \A a \in 1..Len(inst) :
          (~inst[a].inited /\ inst[a].pool = 0) =>
             /\ CloseInstBegin(a) = inst
             /\ ClosePoolsBegin(a) = pools
             /\ CloseInstEnd(a, 0) = inst
             /\ ClosePoolsEnd(a, 0) = pools]_vars

\* C21 witness: close has returned after ending the pool of the SQL adapter
\* that was bound, and the facade is unbound.
C21_Witness ==
  /\ closer.pc = "done"
  /\ adapter = 0
  /\ ~initialized
  /\ \E a \in 1..Len(inst) : inst[a].kind = "sql" /\ inst[a].pool = 0
  /\ \E p \in 1..Len(pools) : pools[p] = "ended"


\* ---------------------------------------------------------------------------
\* Claims about the DSN parser

\* The text of str before and after its first sep (all of str, and
\* undefined, when sep does not occur), and around its last sep.
BeforeFirst(str, sep) ==
  IF IndexOf(str, sep) = 0 THEN str ELSE SubSeq(str, 1, IndexOf(str, sep) - 1)

AfterFirst(str, sep) ==
  IF IndexOf(str, sep) = 0 THEN Undefined
  ELSE SubSeq(str, IndexOf(str, sep) + 1, Len(str))

LastIndexOf(str, sep) ==
  IF IndexOf(str, sep) = 0 THEN 0
  ELSE CHOOSE i \in 1..Len(str) :
         str[i] = sep /\ \A j \in (i + 1)..Len(str) : str[j] # sep

BeforeLast(str, sep) ==
  IF LastIndexOf(str, sep) = 0 THEN str ELSE SubSeq(str, 1, LastIndexOf(str, sep) - 1)

AfterLast(str, sep) ==
  IF LastIndexOf(str, sep) = 0 THEN Undefined
  ELSE SubSeq(str, LastIndexOf(str, sep) + 1, Len(str))

\* C22: for a DSN with exactly one '@', parseDSN returns as user the text
\* before the first ':' of the credentials, as password all the text from
\* there to the '@', as database all the text after the first '/' behind
\* the '@', and as host and port the host segment split at its last ':',
\* the port as an integer.
C22_ParseDSNSplitsPositionally ==
  parsed.called =>
    LET creds == BeforeFirst(dsn, "@")
        rest == AfterFirst(dsn, "@")
        segment == BeforeFirst(rest, "/")
    IN /\ ~parsed.threw
       /\ parsed.user = BeforeFirst(creds, ":")
       /\ parsed.password = AfterFirst(creds, ":")
       /\ parsed.database = AfterFirst(rest, "/")
       /\ parsed.host = BeforeLast(segment, ":")
       /\ parsed.port = ParseInt(AfterLast(segment, ":"))


\* ---------------------------------------------------------------------------
\* Further claims about the adapter operations

\* C23: KVAdapter.query returns the empty list and never throws, whatever
\* the query and its parameters, whether the adapter is initialized or not
\* and whether its namespace is usable or not, and it neither reads nor
\* writes the store.
C23_KvQueryReturnsEmpty ==
  (aKind = "kv" /\ opn.pc = "done" /\ opn.name = "query") =>
    /\ opn.ret = "empty"
    /\ opn.kvCalls = 0
    /\ tbl = opn.before

\* C23 witness: query with a text that is no SQL has returned the empty list
\* on an adapter that is not initialized and whose namespace is no object.
C23_Witness ==
  /\ aKind = "kv"
  /\ aConf = "string"
  /\ ~aInit
  /\ opn.pc = "done"
  /\ opn.name = "query"
  /\ opn.arg = "not SQL"
  /\ opn.ret = "empty"


\* C24: in SQLAdapter.transaction the handle passed to the callback has get,
\* set, delete, list and query, so a callback never finds one of them
\* missing, and what they do is committed or rolled back with the
\* transaction.
C24_SqlHandleHasEveryOperation ==
  aKind = "sql" => ~opn.missing


\* ---------------------------------------------------------------------------
\* Further claims about the HTTP handlers

\* C25: on every deployment path a GET of the home configuration is answered
\* from the configuration current at the request: with enableLogin set, the
\* redacted configuration when the token of the request passes verification
\* and 401 otherwise; with enableLogin unset, the redacted configuration.
C25_HomeConfigNeedsTokenWhenLoginEnabled ==
  [][(req'.route = "home" /\ req'.method = "GET" /\ dbState' = dbState) =>
       LET config == IF deploy \in {"express", "expressDsn"}
                     THEN ExpressGetConfig ELSE CloudflareGetConfig
       IN IF config.enableLogin /\ ~VerifyToken(deploy, req'.token)
          THEN resp'.status = 401
          ELSE resp' = Response(200, PublicConfig(config), FALSE)]_vars


\* ---------------------------------------------------------------------------
\* Claims about the API middleware

\* C26: over any interleaving of requests passing through the middleware,
\* setupDatabase is started at most once in the process.
C26_SetupDatabaseRunsOnce == setups <= 1


\* ---------------------------------------------------------------------------
\* Claims about concurrent calls of the facade

\* C27: over any interleaving of Database.initialize calls, when one of them
\* has returned true and no close has been called since, the facade holds an
\* adapter whose own initialize succeeded, so that get and set do not raise.
C27_ReturnedTrueMeansUsable ==
  (bound /\ closer.pc = "idle") =>
    /\ adapter # 0
    /\ ~Forwarder("get").raised


\* C28: no auth handler of any deployment answers a login that asks for an
\* admin token with a missing or empty password by issuing a token, also when
\* ADMIN_PASSWORD is not configured.
C28_NoAdminTokenWithoutPassword ==
  [][(\E password \in {"undef", ""} :
        \/ ExpressAuthVerify(password, TRUE)
        \/ VercelAuth(password, TRUE)
        \/ HandleAuthRequest(password, TRUE)) =>
       resp'.status # 200]_vars


\* ---------------------------------------------------------------------------
\* Further claims about the adapters behind the facade

\* C29: when SQLAdapter.initialize() returns false to the facade, the pool
\* that call of initialize created has been ended, not only dereferenced.
C29_FailedSqlInitializeEndsItsPool ==
  [][\A c \in Calls :
       (/\ calls[c].pc = "awaitInit"
        /\ inst[calls[c].cur].kind = "sql"
        /\ InitAwaited(c, FALSE)) =>
         pools'[calls[c].curPool] = "ended"]_vars


\* C30: for each adapter and every value v, strings whose text is valid JSON
\* included, a get that follows a successful set of v returns v.
C30_SetThenGetRoundTrips ==
  (getter.pc = "done" /\ okSets # <<>>) =>
    getter.result = okSets[Len(okSets)]

====
